---- MODULE Spec2Model ----
(***************************************************************************)
(* RevoCALC: the retirement projection core (useRetirementProjection.js).  *)
(*                                                                         *)
(* Numbers.  The program computes in IEEE doubles; the model computes in   *)
(* fixed point.  A money amount is an integer number of 1/unit rand, where *)
(* unit is chosen per scenario (100: cents, for the tax evaluators and the *)
(* net-to-gross inverter; 1: whole rand, for full projections, whose       *)
(* contributions reach 50,000 * 2^10 rand a month).  A rate is an integer  *)
(* number of percent, as the caller supplies it (the program divides by    *)
(* 100).  Every product with a rate rounds down to the next 1/unit rand.   *)
(***************************************************************************)
EXTENDS Integers, Sequences, FiniteSets, TLC

VARIABLES
    unit,       \* fixed-point resolution: money is held in 1/unit rand
    pc,         \* position of the running scenario
    taxArgs,    \* arguments of the tax evaluators and of the inverter
    taxOut,     \* their results
    params,     \* the input record of useRetirementProjection
    sol,        \* the solver's locals: low, high, guard, i, solution
    result,     \* the record the hook returned
    prev,       \* the inputs and results of the earlier invocations
    accIn,      \* the input record of a stepped accumulateToRetirement
    acc         \* its locals

vars == <<unit, pc, taxArgs, taxOut, params, sol, result, prev, accIn, acc>>

----------------------------------------------------------------------------
(* Arithmetic helpers *)

Min(a, b) == IF a <= b THEN a ELSE b
Max(a, b) == IF a >= b THEN a ELSE b

\* a * r / 100 rounded down, without leaving 32 bits (|a| < 2^31, 0 <= r <= 200).
PctOf(a, r) == (a \div 100) * r + ((a % 100) * r) \div 100

\* x * (1 + r/100)^n: Math.pow(1 + r, n) applied to x, one year at a time.
RECURSIVE Grow(_, _, _)
Grow(x, r, n) == IF n <= 0 THEN x ELSE Grow(PctOf(x, 100 + r), r, n - 1)

\* x * f / 10^8 rounded down, without leaving 32 bits, by splitting f and x at
\* 10^4 (0 <= f < 2 * 10^8, |x * f / 10^8| < 2^31).
MulScaled(x, f) ==
    LET fh == f \div 10000
        fl == f % 10000
        xh == x \div 10000
        xl == x % 10000
        q1 == xh * fh + (xl * fh) \div 10000     \* x * fh = q1 * 10^4 + r1
        r1 == (xl * fh) % 10000
        q2 == xh * fl + (xl * fl) \div 10000     \* x * fl = q2 * 10^4 + r2
    IN q1 + (r1 + q2) \div 10000

----------------------------------------------------------------------------
(* Domain constants *)

Infinity == 2147483647

\* The table with the base of its third bracket 362 rand short of the tax at
\* the second bracket's limit.
SARS_BRACKETS_2026_gap == <<
    [limit |-> 237100,   base |-> 0,      rate |-> 18],
    [limit |-> 370500,   base |-> 42678,  rate |-> 26],
    [limit |-> 512800,   base |-> 77000,  rate |-> 31],
    [limit |-> 673000,   base |-> 121475, rate |-> 36],
    [limit |-> 857900,   base |-> 179147, rate |-> 39],
    [limit |-> 1817000,  base |-> 251258, rate |-> 41],
    [limit |-> Infinity, base |-> 644489, rate |-> 45] >>

SARS_BRACKETS_2026 == <<
    [limit |-> 237100,   base |-> 0,      rate |-> 18],
    [limit |-> 370500,   base |-> 42678,  rate |-> 26],
    [limit |-> 512800,   base |-> 77362,  rate |-> 31],
    [limit |-> 673000,   base |-> 121475, rate |-> 36],
    [limit |-> 857900,   base |-> 179147, rate |-> 39],
    [limit |-> 1817000,  base |-> 251258, rate |-> 41],
    [limit |-> Infinity, base |-> 644489, rate |-> 45] >>

SARS_PRIMARY_REBATE == 17235
SARS_SECONDARY_REBATE == 9444
SARS_TERTIARY_REBATE == 3145

TFSA_LIFETIME_LIMIT == 500000

----------------------------------------------------------------------------
(* Tax evaluators *)

\* A constant of the source, given in rand, in the model's money unit.
Rand(x) == x * unit

\* x * factor, factor = Math.pow(1 + inflation, yearsFromNow), for a constant
\* x of the source given in rand (factor = 1 in sarsAnnualTax).
Indexed(x, inflation, yearsFromNow) == Grow(Rand(x), inflation, yearsFromNow)

\* The limit of bracket i that the loop compares the income with.
BracketLimit(i, inflation, yearsFromNow) ==
    IF SARS_BRACKETS_2026[i].limit = Infinity THEN Infinity
    ELSE Indexed(SARS_BRACKETS_2026[i].limit, inflation, yearsFromNow)

\* The for-loop over the table: the first bracket whose limit is >= income
\* (0 if the loop ends without a break).
RECURSIVE FirstBracket(_, _, _, _)
FirstBracket(income, i, inflation, yearsFromNow) ==
    IF i > Len(SARS_BRACKETS_2026) THEN 0
    ELSE IF income <= BracketLimit(i, inflation, yearsFromNow) THEN i
    ELSE FirstBracket(income, i + 1, inflation, yearsFromNow)

\* BracketTax with the rate of a bracket applied to the whole income on top of
\* its base (prevLimit is not subtracted).
BracketTax_cliff(income, i, inflation, yearsFromNow) ==
    IF i = 0 THEN 0
    ELSE IF SARS_BRACKETS_2026[i].base = 0 \/ i = 1
         THEN PctOf(income, SARS_BRACKETS_2026[i].rate)
         ELSE Indexed(SARS_BRACKETS_2026[i].base, inflation, yearsFromNow)
              + PctOf(income, SARS_BRACKETS_2026[i].rate)

\* The tax the loop assigns in bracket i, before rebates.
BracketTax(income, i, inflation, yearsFromNow) ==
    IF i = 0 THEN 0
    ELSE IF SARS_BRACKETS_2026[i].base = 0 \/ i = 1
         THEN PctOf(income, SARS_BRACKETS_2026[i].rate)
         ELSE Indexed(SARS_BRACKETS_2026[i].base, inflation, yearsFromNow)
              + PctOf(income - BracketLimit(i - 1, inflation, yearsFromNow),
                      SARS_BRACKETS_2026[i].rate)

\* The rebates by age.
Rebate(age, inflation, yearsFromNow) ==
    Indexed(SARS_PRIMARY_REBATE, inflation, yearsFromNow)
    + (IF age >= 65 THEN Indexed(SARS_SECONDARY_REBATE, inflation, yearsFromNow)
       ELSE 0)
    + (IF age >= 75 THEN Indexed(SARS_TERTIARY_REBATE, inflation, yearsFromNow)
       ELSE 0)

\* sarsAnnualTax with the secondary rebate granted only after 65 (age > 65).
sarsAnnualTax_lateRebate(income, age) ==
    IF income <= 0 THEN 0
    ELSE Max(0, BracketTax(income, FirstBracket(income, 1, 0, 0), 0, 0)
                - (Rand(SARS_PRIMARY_REBATE)
                   + (IF age > 65 THEN Rand(SARS_SECONDARY_REBATE) ELSE 0)
                   + (IF age >= 75 THEN Rand(SARS_TERTIARY_REBATE) ELSE 0)))

sarsAnnualTax(income, age) ==
    IF income <= 0 THEN 0
    ELSE Max(0, BracketTax(income, FirstBracket(income, 1, 0, 0), 0, 0)
                - Rebate(age, 0, 0))

\* sarsAnnualTaxIndexed without the indexing: the table of 2026 in every year.
sarsAnnualTaxIndexed_static(income, age, yearsFromNow, inflation, taxRealism) ==
    sarsAnnualTax(income, age)

sarsAnnualTaxIndexed(income, age, yearsFromNow, inflation, taxRealism) ==
    IF income <= 0 THEN 0
    ELSE IF ~taxRealism \/ yearsFromNow <= 0 \/ inflation <= 0
         THEN sarsAnnualTax(income, age)
    ELSE Max(0, BracketTax(income,
                           FirstBracket(income, 1, inflation, yearsFromNow),
                           inflation, yearsFromNow)
                - Rebate(age, inflation, yearsFromNow))

\* flatTax without its guard on income <= 0.
flatTax_noGuard(income, rate) == PctOf(income, rate)

flatTax(income, rate) ==
    IF income <= 0 THEN 0 ELSE PctOf(income, rate)

----------------------------------------------------------------------------
(* Net-to-gross inverter *)

\* The tax dispatch of grossFromNetTarget: taxMode === "SARS" ? ... : flatTax.
TaxOf(x, age, taxMode, flatRate, yearsFromNow, inflation, taxRealism) ==
    IF taxMode = "SARS"
    THEN sarsAnnualTaxIndexed(x, age, yearsFromNow, inflation, taxRealism)
    ELSE flatTax(x, flatRate)

BisectionSteps == 40

\* The loop of grossFromNetTarget from step i on; returns the final high.
RECURSIVE GrossLoop(_, _, _, _, _, _, _, _, _, _)
GrossLoop(low, high, i, netTarget, age, taxMode, flatRate, yearsFromNow, inflation, taxRealism) ==
    IF i >= BisectionSteps THEN high
    ELSE
      LET mid == low + (high - low) \div 2     \* (low + high) / 2
          tax == TaxOf(mid, age, taxMode, flatRate, yearsFromNow, inflation,
                       taxRealism)
          net == mid - tax
      IN IF net >= netTarget
         THEN GrossLoop(low, mid, i + 1, netTarget, age, taxMode, flatRate,
                        yearsFromNow, inflation, taxRealism)
         ELSE GrossLoop(mid, high, i + 1, netTarget, age, taxMode, flatRate,
                        yearsFromNow, inflation, taxRealism)

\* netTarget / (1 - 0.45)
GrossUpperBound(netTarget) == (netTarget \div 55) * 100 + ((netTarget % 55) * 100) \div 55

\* return { gross, tax, net }
GrossResult(gross, tax) == [gross |-> gross, tax |-> tax, net |-> gross - tax]

\* const gross = high, and its tax.
GrossTaxed(gross, age, taxMode, flatRate, yearsFromNow, inflation, taxRealism) ==
    GrossResult(gross, TaxOf(gross, age, taxMode, flatRate, yearsFromNow,
                             inflation, taxRealism))

grossFromNetTarget(netTarget, age, taxMode, flatRate, yearsFromNow, inflation, taxRealism) ==
    IF netTarget <= 0 THEN [gross |-> 0, tax |-> 0, net |-> 0]
    ELSE GrossTaxed(GrossLoop(netTarget, GrossUpperBound(netTarget), 0, netTarget,
                              age, taxMode, flatRate, yearsFromNow, inflation,
                              taxRealism),
                    age, taxMode, flatRate, yearsFromNow, inflation, taxRealism)

----------------------------------------------------------------------------
(* Accumulation simulator *)

\* Resolution of the monthly growth factor 1 + monthlyRate.
MonthScale == 10000 * 10000

\* f^12 at scale MonthScale, each product rounded down.
RECURSIVE PowScaled(_, _)
PowScaled(f, n) ==
    IF n = 1 THEN f ELSE MulScaled(PowScaled(f, n - 1), f)

\* The largest f in [lo, hi) with f^12 <= target (all at scale MonthScale).
RECURSIVE RootSearch(_, _, _)
RootSearch(lo, hi, target) ==
    IF hi - lo <= 1 THEN lo
    ELSE LET mid == lo + (hi - lo) \div 2
         IN IF PowScaled(mid, 12) <= target
            THEN RootSearch(mid, hi, target)
            ELSE RootSearch(lo, mid, target)

\* The monthly factor by division: 1 + preReturn / 12.
MonthlyFactor_divided(preReturn) ==
    MonthScale + preReturn * (MonthScale \div 1200)

\* 1 + monthlyRate = Math.pow(1 + preReturn, 1 / 12), at scale MonthScale.
MonthlyFactor(preReturn) ==
    IF preReturn = 0 THEN MonthScale
    ELSE RootSearch(0, MonthScale + MonthScale \div 10,
                    MonthScale + preReturn * (MonthScale \div 100))

\* x *= 1 + monthlyRate
GrowMonth(x, factor) ==
    IF factor = MonthScale THEN x ELSE MulScaled(x, factor)

\* The locals of accumulateToRetirement at its first loop test.  y and m are
\* the loop counters; m = 12 is the point after the month loop of year y.
\* tfsaThisMonth, tfsaOverflow and raThisMonth keep the last month's values.
AccBegin(in) ==
    [y |-> 0, m |-> 0,
     monthlyFactor |-> MonthlyFactor(in.preReturn),
     ra |-> in.initialCapitalTaxable,
     tfsa |-> in.initialTfsaBalance,
     tfsaContribTotal |-> in.tfsaContribToDate,
     raStart |-> 0, tfsaStart |-> 0, raAnnual |-> 0, tfsaAnnual |-> 0,
     tfsaThisMonth |-> 0, tfsaOverflow |-> 0, raThisMonth |-> 0,
     timeline |-> <<>>]

\* AccYears with the retirement year counted as a year of saving.
AccYears_inclusive(in) == Max(0, in.retireAge - in.currentAge + 1)

AccYears(in) == Max(0, in.retireAge - in.currentAge)

\* contributionMonthly * Math.pow(1 + annualIncrease, y)
YearContributionMonthly(in, y) == Grow(in.contributionMonthly, in.annualIncrease, y)

\* Math.max(0, yearContributionMonthly - yearTfsaDesiredMonthly)
RemainingMonthly(in, y) == Max(0, YearContributionMonthly(in, y) - in.tfsaMonthly)

\* TfsaThisMonth without the remaining cap: below the limit the whole desired
\* amount is contributed.
TfsaThisMonth_uncapped(tfsaMonthly, tfsaContribTotal) ==
    IF tfsaContribTotal < Rand(TFSA_LIFETIME_LIMIT)
    THEN tfsaMonthly
    ELSE 0

\* The capped TFSA contribution of one month, given the cumulative total.
TfsaThisMonth(tfsaMonthly, tfsaContribTotal) ==
    IF tfsaContribTotal < Rand(TFSA_LIFETIME_LIMIT)
    THEN Min(tfsaMonthly, Rand(TFSA_LIFETIME_LIMIT) - tfsaContribTotal)
    ELSE 0

\* TfsaOverflow without the else branch: once the cap is reached nothing is
\* redirected.
TfsaOverflow_dropped(tfsaMonthly, tfsaContribTotal) ==
    IF tfsaContribTotal < Rand(TFSA_LIFETIME_LIMIT)
    THEN Max(0, tfsaMonthly - TfsaThisMonth(tfsaMonthly, tfsaContribTotal))
    ELSE 0

\* The part of the desired TFSA contribution redirected to the RA.
TfsaOverflow(tfsaMonthly, tfsaContribTotal) ==
    IF tfsaContribTotal < Rand(TFSA_LIFETIME_LIMIT)
    THEN Max(0, tfsaMonthly - TfsaThisMonth(tfsaMonthly, tfsaContribTotal))
    ELSE tfsaMonthly

\* The body of the month loop, the month's three amounts given (with, before
\* the first month of a year, the year's set-up: raStart, tfsaStart and the
\* annual sums).
AccMonthAdd(st, in, remainingMonthly, tfsaThisMonth, tfsaOverflow) ==
    [st EXCEPT
       !.m = st.m + 1,
       !.raStart = IF st.m = 0 THEN st.ra ELSE @,
       !.tfsaStart = IF st.m = 0 THEN st.tfsa ELSE @,
       !.tfsaContribTotal = IF st.tfsaContribTotal < Rand(TFSA_LIFETIME_LIMIT)
                            THEN st.tfsaContribTotal + tfsaThisMonth
                            ELSE st.tfsaContribTotal,
       !.ra = GrowMonth(st.ra + remainingMonthly + tfsaOverflow, st.monthlyFactor),
       !.tfsa = GrowMonth(st.tfsa + tfsaThisMonth, st.monthlyFactor),
       !.raAnnual = (IF st.m = 0 THEN 0 ELSE @) + remainingMonthly + tfsaOverflow,
       !.tfsaAnnual = (IF st.m = 0 THEN 0 ELSE @) + tfsaThisMonth,
       !.tfsaThisMonth = tfsaThisMonth,
       !.tfsaOverflow = tfsaOverflow,
       !.raThisMonth = remainingMonthly + tfsaOverflow]

\* One pass of the month loop.
AccMonthStep(st, in) ==
    AccMonthAdd(st, in, RemainingMonthly(in, st.y),
                TfsaThisMonth(in.tfsaMonthly, st.tfsaContribTotal),
                TfsaOverflow(in.tfsaMonthly, st.tfsaContribTotal))

\* grossIncome * Math.pow(1 + salaryGrowthRate, y)
GrossIncomeYear(in, y) ==
    Grow(in.grossIncome,
         IF in.incomeGrowthMode = "INFLATION" THEN in.inflation
         ELSE in.incomeGrowthRate,
         y)

\* The deduction limit without its ceiling of 350 000.
RaDeductionLimit_uncapped(grossIncome) ==
    (grossIncome \div 1000) * 275 + ((grossIncome % 1000) * 275) \div 1000

\* Math.min(0.275 * grossIncome, 350_000)
RaDeductionLimit(grossIncome) ==
    Min((grossIncome \div 1000) * 275 + ((grossIncome % 1000) * 275) \div 1000,
        Rand(350000))

\* RaTaxSavingOn with the table of the first year in every year (indexing
\* years 0 instead of y).
RaTaxSavingOn_unindexed(grossIncomeYear, deductible, age, y, in) ==
    Max(0, sarsAnnualTaxIndexed(grossIncomeYear, age, 0, in.inflation,
                                in.taxRealism)
           - sarsAnnualTaxIndexed(grossIncomeYear - deductible, age, 0,
                                  in.inflation, in.taxRealism))

\* taxBefore - taxAfter for the deductible part of the year's RA contribution.
RaTaxSavingOn(grossIncomeYear, deductible, age, y, in) ==
    Max(0, sarsAnnualTaxIndexed(grossIncomeYear, age, y, in.inflation,
                                in.taxRealism)
           - sarsAnnualTaxIndexed(grossIncomeYear - deductible, age, y,
                                  in.inflation, in.taxRealism))

RaTaxSavingGiven(in, y, raAnnual, grossIncomeYear) ==
    IF in.reinvestRaTaxSaving /\ grossIncomeYear > 0 /\ raAnnual > 0
    THEN RaTaxSavingOn(grossIncomeYear,
                       Min(raAnnual, RaDeductionLimit(grossIncomeYear)),
                       in.currentAge + y, y, in)
    ELSE 0

\* The tax saving of year y on the year's RA contribution raAnnual.
RaTaxSavingYear(in, y, raAnnual) ==
    RaTaxSavingGiven(in, y, raAnnual, GrossIncomeYear(in, y))

\* AccYearPush with the record written before the tax saving is added: raEnd
\* lacks the lump sum the next year starts with.
AccYearPush_beforeSaving(st, in, raTaxSavingYear) ==
    [st EXCEPT
       !.y = st.y + 1,
       !.m = 0,
       !.ra = st.ra + raTaxSavingYear,
       !.timeline = Append(st.timeline,
           [yearIndex |-> st.y,
            age |-> in.currentAge + st.y,
            raStart |-> st.raStart,
            tfsaStart |-> st.tfsaStart,
            raEnd |-> st.ra,
            tfsaEnd |-> st.tfsa,
            totalContribution |-> YearContributionMonthly(in, st.y) * 12,
            raContribution |-> st.raAnnual,
            tfsaContribution |-> st.tfsaAnnual,
            raTaxSaving |-> raTaxSavingYear])]

\* ra += raTaxSavingYear, the year's record, y++.
AccYearPush(st, in, raTaxSavingYear) ==
    [st EXCEPT
       !.y = st.y + 1,
       !.m = 0,
       !.ra = st.ra + raTaxSavingYear,
       !.timeline = Append(st.timeline,
           [yearIndex |-> st.y,
            age |-> in.currentAge + st.y,
            raStart |-> st.raStart,
            tfsaStart |-> st.tfsaStart,
            raEnd |-> st.ra + raTaxSavingYear,
            tfsaEnd |-> st.tfsa,
            totalContribution |-> YearContributionMonthly(in, st.y) * 12,
            raContribution |-> st.raAnnual,
            tfsaContribution |-> st.tfsaAnnual,
            raTaxSaving |-> raTaxSavingYear])]

\* The end of a pass of the year loop: the reinvested tax saving, the year's
\* record, y++.
AccYearEnd(st, in) ==
    AccYearPush(st, in, RaTaxSavingYear(in, st.y, st.raAnnual))

RECURSIVE AccLoop(_, _)
AccLoop(st, in) ==
    IF st.y >= AccYears(in) THEN st
    ELSE IF st.m < 12 THEN AccLoop(AccMonthStep(st, in), in)
    ELSE AccLoop(AccYearEnd(st, in), in)

\* return { ra, tfsa, timeline }
AccReturn(st) == [ra |-> st.ra, tfsa |-> st.tfsa, timeline |-> st.timeline]

accumulateToRetirement(in) == AccReturn(AccLoop(AccBegin(in), in))

----------------------------------------------------------------------------
(* Decumulation simulator *)

\* The RA withdrawal when the balance does not cover the grossed-up need: the
\* whole balance, taxed.
DrawRaAll(ra, remainingNet, taxAll) ==
    [ra |-> 0, remainingNet |-> remainingNet - (ra - taxAll),
     gross |-> ra, tax |-> taxAll]

\* DrawRaGrossed without the test of the balance: the grossed-up need is
\* withdrawn whatever the RA holds.
DrawRaGrossed_overdrawn(ra, remainingNet, g, age, yearsFromNow, in) ==
    [ra |-> ra - g.gross, remainingNet |-> remainingNet - g.net,
     gross |-> g.gross, tax |-> g.tax]

\* The RA withdrawal given the grossed-up need g.
DrawRaGrossed(ra, remainingNet, g, age, yearsFromNow, in) ==
    IF g.gross <= ra
    THEN [ra |-> ra - g.gross, remainingNet |-> remainingNet - g.net,
          gross |-> g.gross, tax |-> g.tax]
    ELSE DrawRaAll(ra, remainingNet,
                   TaxOf(ra, age, in.taxMode, in.flatTaxRate,
                         yearsFromNow, in.inflation, in.taxRealism))

\* The withdrawal from the RA (the block the two depletion orders share):
\* the grossed-up need if the balance covers it, the whole balance otherwise.
DrawRa(ra, remainingNet, age, yearsFromNow, in) ==
    IF ra > 0 /\ remainingNet > 0
    THEN DrawRaGrossed(ra, remainingNet,
                       grossFromNetTarget(remainingNet, age, in.taxMode,
                                          in.flatTaxRate, yearsFromNow,
                                          in.inflation, in.taxRealism),
                       age, yearsFromNow, in)
    ELSE [ra |-> ra, remainingNet |-> remainingNet, gross |-> 0, tax |-> 0]

\* DrawTfsa with the withdrawal taxed at 18%: the need falls by less than the
\* amount taken.
DrawTfsa_taxed(tfsa, remainingNet) ==
    IF tfsa > 0 /\ remainingNet > 0
    THEN LET fromTfsa == Min(tfsa, remainingNet)
         IN [tfsa |-> tfsa - fromTfsa,
             remainingNet |-> remainingNet - PctOf(fromTfsa, 82),
             gross |-> fromTfsa]
    ELSE [tfsa |-> tfsa, remainingNet |-> remainingNet, gross |-> 0]

\* The withdrawal from the TFSA: net for net, untaxed.
DrawTfsa(tfsa, remainingNet) ==
    IF tfsa > 0 /\ remainingNet > 0
    THEN LET fromTfsa == Min(tfsa, remainingNet)
         IN [tfsa |-> tfsa - fromTfsa, remainingNet |-> remainingNet - fromTfsa,
             gross |-> fromTfsa]
    ELSE [tfsa |-> tfsa, remainingNet |-> remainingNet, gross |-> 0]

\* The locals of simulateDecumulation at its first loop test; stopped is the
\* break.  fromRa, fromTfsa and remainingNet keep the last year's withdrawals
\* from the two pools and what they left uncovered.
DecBegin(in) ==
    [y |-> 0, stopped |-> FALSE,
     ra |-> in.raStart, tfsa |-> in.tfsaStart,
     fromRa |-> 0, fromTfsa |-> 0, remainingNet |-> 0,
     exhaustionAge |-> in.lifeExpectancy,
     year1GrossWithdrawal |-> 0, year1NetWithdrawal |-> 0, year1Tax |-> 0,
     timeline |-> <<>>]

DecYears(in) == Max(0, in.lifeExpectancy - in.retireAge)

\* targetNetMonthlyAtRet * 12 * Math.pow(1 + inflation, y)
NetRequired(in, y) == Grow(in.targetNetMonthlyAtRet * 12, in.inflation, y)

\* The exhaustion test with the unmet need alone: capital that is gone does
\* not stop the loop.
Exhausted_needOnly(remainingNet, ra, tfsa) == remainingNet > 0

\* if (remainingNet > 0 || ra + tfsa <= 0), on the balances after growth.
Exhausted(remainingNet, ra, tfsa) == remainingNet > 0 \/ ra + tfsa <= 0

\* The end of a pass of the year loop, the withdrawals r (RA) and t (TFSA)
\* made and remainingNet left uncovered: the year-1 capture, the growth, the
\* ledger row and the exhaustion test.
DecYearEnd(st, in, age, netRequired, r, t, remainingNet) ==
    LET yearGross == r.gross + t.gross
        yearTax == r.tax
        yearNetDelivered == netRequired - Max(0, remainingNet)
        ra == PctOf(r.ra, 100 + in.postReturn)
        tfsa == PctOf(t.tfsa, 100 + in.postReturn)
        exhausted == Exhausted(remainingNet, ra, tfsa)
    IN [st EXCEPT
          !.y = st.y + 1,
          !.stopped = exhausted,
          !.ra = ra,
          !.tfsa = tfsa,
          !.fromRa = r.gross,
          !.fromTfsa = t.gross,
          !.remainingNet = remainingNet,
          !.exhaustionAge = IF exhausted THEN age ELSE st.exhaustionAge,
          !.year1GrossWithdrawal = IF st.y = 0 THEN yearGross ELSE @,
          !.year1NetWithdrawal = IF st.y = 0 THEN yearNetDelivered ELSE @,
          !.year1Tax = IF st.y = 0 THEN yearTax ELSE @,
          !.timeline = Append(st.timeline,
              [yearIndex |-> st.y,
               age |-> age,
               raStart |-> st.ra,
               tfsaStart |-> st.tfsa,
               raEnd |-> ra,
               tfsaEnd |-> tfsa,
               netRequired |-> netRequired,
               netDelivered |-> yearNetDelivered,
               grossWithdrawal |-> yearGross,
               taxPaid |-> yearTax])]

\* depleteOrder === "TFSA_FIRST": the RA covers what the TFSA (t) left.
TfsaFirstRa(st, in, age, netRequired, t, r) ==
    DecYearEnd(st, in, age, netRequired, r, t, r.remainingNet)

TfsaFirst(st, in, age, netRequired, t) ==
    TfsaFirstRa(st, in, age, netRequired, t,
                DrawRa(st.ra, t.remainingNet, age, in.yearsFromNowStart + st.y, in))

\* otherwise: the TFSA covers what the RA (r) left.
RaFirstTfsa(st, in, age, netRequired, r, t) ==
    DecYearEnd(st, in, age, netRequired, r, t, t.remainingNet)

RaFirst(st, in, age, netRequired, r) ==
    RaFirstTfsa(st, in, age, netRequired, r, DrawTfsa(st.tfsa, r.remainingNet))

\* DecWithdraw that ignores depleteOrder: the RA first, always.
DecWithdraw_raAlways(st, in, age, netRequired) ==
    RaFirst(st, in, age, netRequired,
            DrawRa(st.ra, netRequired, age, in.yearsFromNowStart + st.y, in))

DecWithdraw(st, in, age, netRequired) ==
    IF in.depleteOrder = "TFSA_FIRST"
    THEN TfsaFirst(st, in, age, netRequired, DrawTfsa(st.tfsa, netRequired))
    ELSE RaFirst(st, in, age, netRequired,
                 DrawRa(st.ra, netRequired, age, in.yearsFromNowStart + st.y, in))

\* One pass of the year loop.
DecYearStep(st, in) ==
    DecWithdraw(st, in, in.retireAge + st.y, NetRequired(in, st.y))

RECURSIVE DecLoop(_, _)
DecLoop(st, in) ==
    IF st.stopped \/ st.y >= DecYears(in) THEN st
    ELSE DecLoop(DecYearStep(st, in), in)

\* return { exhaustionAge, year1GrossWithdrawal, ..., timeline }
DecReturn(st) ==
    [exhaustionAge |-> st.exhaustionAge,
     year1GrossWithdrawal |-> st.year1GrossWithdrawal,
     year1NetWithdrawal |-> st.year1NetWithdrawal,
     year1Tax |-> st.year1Tax,
     timeline |-> st.timeline]

simulateDecumulation(in) == DecReturn(DecLoop(DecBegin(in), in))

----------------------------------------------------------------------------
(* Projection orchestrator and contribution solver *)

YearsToRetire(p) == Max(0, p.retireAge - p.currentAge)

\* targetNetMonthToday * Math.pow(1 + inf, yearsToRetire)
TargetNetMonthlyAtRet(p) == Grow(p.targetNetToday, p.inflation, YearsToRetire(p))

\* The object simulateWithContribution returns, from what the two simulators
\* returned.
SimulationOf(a, d) ==
    [exhaustionAge |-> d.exhaustionAge,
     year1GrossWithdrawal |-> d.year1GrossWithdrawal,
     year1NetWithdrawal |-> d.year1NetWithdrawal,
     year1Tax |-> d.year1Tax,
     ra |-> a.ra,
     tfsa |-> a.tfsa,
     preTimeline |-> a.timeline,
     postTimeline |-> d.timeline]

\* The decumulation from the capital a that the accumulation reached.
DecumulateFrom(a, p) ==
    SimulationOf(a, simulateDecumulation(
                 [retireAge |-> p.retireAge,
                  lifeExpectancy |-> p.lifeExpectancy,
                  postReturn |-> p.postReturn,
                  inflation |-> p.inflation,
                  targetNetMonthlyAtRet |-> TargetNetMonthlyAtRet(p),
                  raStart |-> a.ra,
                  tfsaStart |-> a.tfsa,
                  depleteOrder |-> p.depleteOrder,
                  taxMode |-> p.taxMode,
                  flatTaxRate |-> p.flatTaxRate,
                  yearsFromNowStart |-> YearsToRetire(p),
                  taxRealism |-> p.taxRealism]))

simulateWithContribution(monthly, p) ==
    DecumulateFrom(accumulateToRetirement(
                 [currentAge |-> p.currentAge,
                  retireAge |-> p.retireAge,
                  preReturn |-> p.preReturn,
                  contributionMonthly |-> monthly,
                  tfsaMonthly |-> p.tfsaMonthly,
                  annualIncrease |-> p.annualIncrease,
                  initialCapitalTaxable |-> p.initialCapital,
                  initialTfsaBalance |-> p.initialTfsaBalance,
                  tfsaContribToDate |-> p.tfsaContribToDate,
                  grossIncome |-> p.grossIncome,
                  reinvestRaTaxSaving |-> p.reinvestRaTaxSaving,
                  inflation |-> p.inflation,
                  taxRealism |-> p.taxRealism,
                  incomeGrowthMode |-> p.incomeGrowthMode,
                  incomeGrowthRate |-> p.incomeGrowthRate]), p)

\* let high = 50_000
InitialHigh == 50000
\* while (... && guard < 10)
MaxDoublings == 10
\* for (let i = 0; i < 30; i++)
SolverSteps == 30

\* The solver's low and high are held exactly, as the integers n with
\*     amount = n * InitialHigh * 2^guard / 2^SolverSteps  rand:
\* high = Ticks while the upper bound is doubled (guard counts the doublings;
\* low is 0), and each bisection step halves an interval whose ends are
\* multiples of 2^(SolverSteps - i), so (low + high) / 2 stays an integer.
Ticks == 2^SolverSteps

\* The amount in money that n stands for, rounded down:
\* n * 50,000 * 2^guard / 2^30 = n * 3125 / 2^(26 - guard), split so that no
\* product leaves 32 bits (unit <= 80).
MonthlyOf(n, guard) ==
    LET d  == 2^(26 - guard)
        nh == n \div d
        nl == n % d
        a  == nl \div 8192
        b  == nl % 8192
        c  == Rand(InitialHigh \div 16)
    IN nh * c + (a * c + (b * c) \div 8192) \div (d \div 8192)

\* SolverBegin with low cleared but high, guard and solution kept in a variable
\* that outlives the invocation.
SolverBegin_stale(p) ==
    IF sol = [kind |-> "none"]
    THEN [low |-> 0, high |-> Ticks, guard |-> 0, i |-> 0,
          simulated |-> [n |-> Ticks, guard |-> 0],
          solution |-> simulateWithContribution(MonthlyOf(Ticks, 0), p)]
    ELSE [sol EXCEPT !.low = 0, !.i = 0]

\* simulated keeps the argument (n, guard) of the call of
\* simulateWithContribution that solution was assigned from.
SolverBegin(p) ==
    [low |-> 0, high |-> Ticks, guard |-> 0, i |-> 0,
     simulated |-> [n |-> Ticks, guard |-> 0],
     solution |-> simulateWithContribution(MonthlyOf(Ticks, 0), p)]

\* MustDouble with the guard off by one (guard <= 10): an eleventh doubling.
MustDouble_offByOne(s, p) ==
    s.solution.exhaustionAge < p.lifeExpectancy /\ s.guard <= MaxDoublings

\* The test of the while loop.
MustDouble(s, p) ==
    s.solution.exhaustionAge < p.lifeExpectancy /\ s.guard < MaxDoublings

\* SolverDouble without the new simulation: solution stays that of the first
\* upper bound.
SolverDouble_stale(s, p) == [s EXCEPT !.guard = s.guard + 1]

\* high *= 2; solution = simulateWithContribution(high); guard++
SolverDouble(s, p) ==
    [s EXCEPT !.guard = s.guard + 1,
              !.simulated = [n |-> s.high, guard |-> s.guard + 1],
              !.solution = simulateWithContribution(MonthlyOf(s.high, s.guard + 1), p)]

\* SolverNarrow with the comparison inverted: the upper bound follows the
\* contributions that fail.
SolverNarrow_inverted(s, p, mid, res) ==
    IF res.exhaustionAge < p.lifeExpectancy
    THEN [s EXCEPT !.i = s.i + 1, !.high = mid, !.solution = res,
                   !.simulated = [n |-> mid, guard |-> s.guard]]
    ELSE [s EXCEPT !.i = s.i + 1, !.low = mid]

\* SolverNarrow with a strict comparison: a contribution that lasts exactly to
\* life expectancy counts as failing.
SolverNarrow_strict(s, p, mid, res) ==
    IF res.exhaustionAge > p.lifeExpectancy
    THEN [s EXCEPT !.i = s.i + 1, !.high = mid, !.solution = res,
                   !.simulated = [n |-> mid, guard |-> s.guard]]
    ELSE [s EXCEPT !.i = s.i + 1, !.low = mid]

\* SolverNarrow that lowers the upper bound and keeps the solution it had.
SolverNarrow_keepsSolution(s, p, mid, res) ==
    IF res.exhaustionAge >= p.lifeExpectancy
    THEN [s EXCEPT !.i = s.i + 1, !.high = mid]
    ELSE [s EXCEPT !.i = s.i + 1, !.low = mid]

\* if (res.exhaustionAge >= lifeExpectancy) { high = mid; solution = res; }
\* else { low = mid; }
SolverNarrow(s, p, mid, res) ==
    IF res.exhaustionAge >= p.lifeExpectancy
    THEN [s EXCEPT !.i = s.i + 1, !.high = mid, !.solution = res,
                   !.simulated = [n |-> mid, guard |-> s.guard]]
    ELSE [s EXCEPT !.i = s.i + 1, !.low = mid]

SolverTry(s, p, mid) ==
    SolverNarrow(s, p, mid, simulateWithContribution(MonthlyOf(mid, s.guard), p))

\* One pass of the bisection loop.
SolverBisect(s, p) == SolverTry(s, p, (s.low + s.high) \div 2)

\* rows.reduce((sum, row) => sum + row[field], 0), from row k on.
RECURSIVE SumField(_, _, _)
SumField(rows, k, field) ==
    IF k > Len(rows) THEN 0 ELSE rows[k][field] + SumField(rows, k + 1, field)

\* The record the hook returns (its money and age fields; the amount of
\* requiredMonthlyContribution is MonthlyOf(high, guard), kept exactly as the
\* pair high, guard).
\* A quotient a / b of two amounts, kept exactly as the pair of its operands.
Quotient(num, den) == [num |-> num, den |-> den]

\* The number 0 where the code returns it in place of a quotient.
Zero == Quotient(0, 1)

\* x / Math.pow(1 + r, n), one year at a time, each quotient rounded down.
RECURSIVE Deflate(_, _, _)
Deflate(x, r, n) ==
    IF n <= 0 THEN x
    ELSE Deflate((x \div (100 + r)) * 100 + ((x % (100 + r)) * 100) \div (100 + r),
                 r, n - 1)

\* year1RealGross > 0 ? year1RealTax / year1RealGross : 0
Year1EffectiveTaxRate(year1RealTax, year1RealGross) ==
    IF year1RealGross > 0 THEN Quotient(year1RealTax, year1RealGross) ELSE Zero

ProjectionResult(s, p) ==
    LET maxRaContrib == RaDeductionLimit(p.grossIncome)
        taxNow == sarsAnnualTax(p.grossIncome, p.currentAge)
        taxWithMaxRA == sarsAnnualTax(p.grossIncome - maxRaContrib, p.currentAge)
    IN [requiredMonthlyContribution |-> [n |-> s.high, guard |-> s.guard],
        taxableCapitalAtRet |-> s.solution.ra,
        tfsaCapitalAtRet |-> s.solution.tfsa,
        totalCapitalAtRet |-> s.solution.ra + s.solution.tfsa,
        targetNetMonthlyAtRet |-> TargetNetMonthlyAtRet(p),
        presentValueRequiredCapital |->
            Deflate(s.solution.ra + s.solution.tfsa, p.inflation, YearsToRetire(p)),
        exhaustionAge |-> s.solution.exhaustionAge,
        year1DrawdownPct |->
            IF s.solution.ra + s.solution.tfsa > 0
            THEN Quotient(s.solution.year1GrossWithdrawal,
                          s.solution.ra + s.solution.tfsa)
            ELSE Zero,
        year1EffectiveTaxRate |->
            Year1EffectiveTaxRate(
                Deflate(s.solution.year1Tax, p.inflation, YearsToRetire(p)),
                Deflate(s.solution.year1GrossWithdrawal, p.inflation,
                        YearsToRetire(p))),
        effectiveTaxRateNow |->
            IF p.grossIncome > 0 THEN Quotient(taxNow, p.grossIncome) ELSE Zero,
        maxRaContrib |-> maxRaContrib,
        taxSaving |-> Max(0, taxNow - taxWithMaxRA),
        totalContributionsAtRetirement |->
            SumField(s.solution.preTimeline, 1, "totalContribution"),
        totalTaxSavingsAtRetirement |->
            SumField(s.solution.preTimeline, 1, "raTaxSaving"),
        preTimeline |-> s.solution.preTimeline,
        postTimeline |-> s.solution.postTimeline,
        retirementAgeNumeric |-> p.retireAge,
        lifeExpectancyNumeric |-> p.lifeExpectancy]

----------------------------------------------------------------------------
(* Scenario: the tax evaluators and the inverter applied to drawn arguments *)

\* Amounts (rand) the evaluators are applied to: both signs, the point where
\* the primary rebate stops covering the tax, every bracket limit and the
\* top of the inverter's range.
TaxAmounts ==
    {-1000, 0, 1, 50000, 95750, 95751, 148217, 165689, 237100, 237101,
     370500, 512800, 512801, 673000, 857900, 1000000, 1817000, 1817001,
     5000000, 10000000}
NetTargets ==
    {-1000, 0, 1, 60000, 72000, 95750, 200000, 237100, 500000, 1000000,
     1817000, 10000000}
TaxAges == {30, 64, 65, 74, 75, 90}
MaxIndexYears == 2
TaxInflations == {-2, 0, 6}
FlatRates == {0, 25, 30, 45, 60}
\* The flat rates flatTax is applied to: the hook divides the caller's
\* flatTaxRate by 100 and passes it on, a negative one included.
HookFlatRates == FlatRates \cup {-10}
\* Amounts are also tried a few 1/unit rand off the round figure.
Offsets == {0, 37}

NoTaxOut == [kind |-> "none"]

\* The value of a variable the running scenario does not use.
Unused == [kind |-> "unused"]

TaxInit ==
    /\ unit = 100
    /\ pc = "idle"
    /\ taxArgs = [kind |-> "none"]
    /\ taxOut = NoTaxOut
    /\ params = Unused /\ sol = Unused /\ result = Unused /\ prev = Unused
    /\ accIn = Unused /\ acc = Unused

\* sarsAnnualTax, sarsAnnualTaxIndexed and flatTax on one income, at every age.
EvalTax ==
    /\ pc = "idle"
    /\ \E x \in TaxAmounts, o \in Offsets, y \in 0..MaxIndexYears,
          inf \in TaxInflations, realism \in BOOLEAN, rate \in HookFlatRates :
         LET income == Rand(x) + o IN
         /\ taxArgs' = [kind |-> "tax", income |-> income, yearsFromNow |-> y,
                        inflation |-> inf, taxRealism |-> realism,
                        flatRate |-> rate]
         /\ taxOut' = [kind |-> "tax",
                       sars |-> [a \in TaxAges |-> sarsAnnualTax(income, a)],
                       indexed |-> [a \in TaxAges |->
                           sarsAnnualTaxIndexed(income, a, y, inf, realism)],
                       flat |-> flatTax(income, rate)]
    /\ pc' = "tax"
    /\ UNCHANGED <<unit, params, sol, result, prev, accIn, acc>>

\* grossFromNetTarget on one net target.
EvalGross ==
    /\ pc = "idle"
    /\ \E x \in NetTargets, o \in Offsets, age \in TaxAges,
          mode \in {"SARS", "FLAT"}, y \in 0..MaxIndexYears,
          inf \in TaxInflations, realism \in BOOLEAN, rate \in FlatRates :
         LET netTarget == Rand(x) + o IN
         /\ mode = "SARS" => rate = 25
         /\ mode = "FLAT" => (y = 0 /\ inf = 0 /\ ~realism)
         /\ taxArgs' = [kind |-> "gross", netTarget |-> netTarget, age |-> age,
                        taxMode |-> mode, flatRate |-> rate,
                        yearsFromNow |-> y, inflation |-> inf,
                        taxRealism |-> realism]
         /\ taxOut' = [kind |-> "gross",
                       res |-> grossFromNetTarget(netTarget, age, mode, rate, y,
                                                  inf, realism)]
    /\ pc' = "gross"
    /\ UNCHANGED <<unit, params, sol, result, prev, accIn, acc>>

\* Steps (in 1/unit rand) between two gross amounts whose nets are compared:
\* each is above what the rounding of an indexed table to 1/unit rand (one
\* rounding a year of indexing, on the limit and on the base) can add up to.
NetSteps == {37, 100, 10000000}
\* The gross amounts (rand) away from the limits of the table of 2026.
NetAmounts == {0, 1, 95750, 148217, 165689, 1000000, 10000000}

\* gross - tax(gross) of the progressive table on two gross amounts a step
\* apart, at every age, by sarsAnnualTax and by sarsAnnualTaxIndexed: the
\* lower amount is one of NetAmounts, or the limit of a bracket of the table
\* of the year (indexed or not) or 37/unit rand below it.
EvalNet ==
    /\ pc = "idle"
    /\ \E i \in 0..(Len(SARS_BRACKETS_2026) - 1), x \in NetAmounts,
          o \in Offsets, d \in NetSteps, y \in 0..MaxIndexYears,
          inf \in TaxInflations, realism \in BOOLEAN :
         LET indexing == realism /\ y > 0 /\ inf > 0
             gross == IF i = 0 THEN Rand(x) + o
                      ELSE BracketLimit(i, IF indexing THEN inf ELSE 0,
                                        IF indexing THEN y ELSE 0) - o
         IN
         /\ i > 0 => x = 0
         /\ taxArgs' = [kind |-> "net", income |-> gross, step |-> d,
                        yearsFromNow |-> y, inflation |-> inf,
                        taxRealism |-> realism]
         /\ taxOut' = [kind |-> "net",
                       sars |-> [a \in TaxAges |->
                           <<gross - sarsAnnualTax(gross, a),
                             (gross + d) - sarsAnnualTax(gross + d, a)>>],
                       indexed |-> [a \in TaxAges |->
                           <<gross - sarsAnnualTaxIndexed(gross, a, y, inf, realism),
                             (gross + d)
                               - sarsAnnualTaxIndexed(gross + d, a, y, inf, realism)>>]]
    /\ pc' = "net"
    /\ UNCHANGED <<unit, params, sol, result, prev, accIn, acc>>

TaxNext == EvalTax \/ EvalGross \/ EvalNet

TaxSpec == TaxInit /\ [][TaxNext]_vars

----------------------------------------------------------------------------
(* Scenario: invocations of the hook, the solver taken step by step *)

\* Horizons: years to retirement and years in retirement.
MaxPreYears == 2
MaxPostYears == 2
\* Invocations in one behaviour (the first, then one per change of the form).
MaxInvocations == 3

BaseParams ==
    [currentAge |-> 30, retireAge |-> 32, lifeExpectancy |-> 34,
     initialCapital |-> 0, initialTfsaBalance |-> 0, tfsaContribToDate |-> 0,
     targetNetToday |-> 5000,
     preReturn |-> 0, postReturn |-> 0, inflation |-> 0, annualIncrease |-> 0,
     tfsaMonthly |-> 0, grossIncome |-> 0,
     incomeGrowthMode |-> "NONE", incomeGrowthRate |-> 0,
     depleteOrder |-> "RA_FIRST", taxMode |-> "SARS", flatTaxRate |-> 25,
     reinvestRaTaxSaving |-> FALSE, taxRealism |-> FALSE]

\* Ages: retirement at 32, reached in 0..MaxPreYears years, and
\* 1..MaxPostYears years of retirement.
AgeTriples ==
    { <<32 - pre, 32, 32 + post>> :
        pre \in 0..MaxPreYears, post \in 1..MaxPostYears }

\* The targets an input record goes through when the target is changed:
\* 5000 (the first), 40000, 0, and round again.
TargetsToday == <<5000, 40000, 0>>
TaxRegimes == { <<"SARS", 25>>, <<"FLAT", 0>>, <<"FLAT", 30>>, <<"FLAT", 60>> }
\* Capital in the RA and in the TFSA.
Capitals == { <<0, 0>>, <<0, 50000>>, <<200000, 50000>> }

\* Inputs that vary the withdrawal side: capital in both pools, the tax on
\* withdrawals, retirement now or in a year.
WithdrawalParams ==
    { [BaseParams EXCEPT
          !.currentAge = a[1], !.retireAge = a[2], !.lifeExpectancy = a[3],
          !.initialCapital = Rand(c[1]), !.initialTfsaBalance = Rand(c[2]),
          !.taxMode = x[1], !.flatTaxRate = x[2]] :
        a \in {<<65, 65, 66>>, <<64, 65, 66>>}, c \in Capitals, x \in TaxRegimes }

\* Inputs that vary the horizons alone.
HorizonParams ==
    { [BaseParams EXCEPT
          !.currentAge = a[1], !.retireAge = a[2], !.lifeExpectancy = a[3]] :
        a \in AgeTriples }

\* Inputs that vary the saving side: TFSA contributions against the lifetime
\* cap, income, the reinvested tax saving, inflation.
SavingParams ==
    { [BaseParams EXCEPT
          !.tfsaMonthly = Rand(m), !.tfsaContribToDate = Rand(495000),
          !.grossIncome = Rand(600000), !.reinvestRaTaxSaving = ri,
          !.inflation = IF ri THEN 6 ELSE 0, !.taxRealism = ri] :
        m \in {0, 800}, ri \in BOOLEAN }

\* Inputs that vary the present income and the age it is taxed at: an income
\* whose deduction limit is 27.5% of it, and one where the ceiling binds.
IncomeParams ==
    { [BaseParams EXCEPT
          !.currentAge = a[1], !.retireAge = a[2], !.lifeExpectancy = a[3],
          !.grossIncome = Rand(g)] :
        a \in {<<30, 32, 34>>, <<65, 65, 66>>}, g \in {500000, 2000000} }

ParamSet ==
    WithdrawalParams \cup HorizonParams \cup SavingParams \cup IncomeParams

NoSol == [kind |-> "none"]
NoResult == [kind |-> "none"]

Init ==
    /\ unit = 1
    /\ pc = "ready"
    /\ params \in ParamSet
    /\ sol = NoSol
    /\ result = NoResult
    /\ prev = <<>>
    /\ taxArgs = Unused /\ taxOut = Unused /\ accIn = Unused /\ acc = Unused

\* let low = 0; let high = 50_000; let solution = simulateWithContribution(high)
Start ==
    /\ pc = "ready"
    /\ sol' = SolverBegin(params)
    /\ pc' = "while"
    /\ UNCHANGED <<unit, params, result, prev, taxArgs, taxOut, accIn, acc>>

\* A pass of the while loop that doubles the upper bound.
Double ==
    /\ pc = "while"
    /\ MustDouble(sol, params)
    /\ sol' = SolverDouble(sol, params)
    /\ UNCHANGED <<unit, pc, params, result, prev, taxArgs, taxOut, accIn, acc>>

\* A pass of the bisection loop (the first one leaves the while loop).
Bisect ==
    /\ \/ pc = "while" /\ ~MustDouble(sol, params)
       \/ pc = "for"
    /\ sol.i < SolverSteps
    /\ sol' = SolverBisect(sol, params)
    /\ pc' = "for"
    /\ UNCHANGED <<unit, params, result, prev, taxArgs, taxOut, accIn, acc>>

\* The derived metrics and the return.
Return ==
    /\ pc = "for"
    /\ sol.i = SolverSteps
    /\ result' = ProjectionResult(sol, params)
    /\ pc' = "done"
    /\ UNCHANGED <<unit, params, sol, prev, taxArgs, taxOut, accIn, acc>>

\* What an invocation leaves for comparison with later ones.
Invocation ==
    [params |-> params, result |-> result,
     year1Tax |-> sol.solution.year1Tax,
     year1GrossWithdrawal |-> sol.solution.year1GrossWithdrawal]

\* The caller renders again: with the same inputs, with the next target or
\* with the other depletion order (one field of the form changed).
Rerender ==
    /\ pc = "done"
    /\ Len(prev) + 1 < MaxInvocations
    /\ prev' = Append(prev, Invocation)
    /\ \/ UNCHANGED params
       \/ \E k \in 1..Len(TargetsToday) :
            /\ Rand(TargetsToday[k]) = params.targetNetToday
            /\ params' = [params EXCEPT !.targetNetToday =
                             Rand(TargetsToday[(k % Len(TargetsToday)) + 1])]
       \/ params' = [params EXCEPT !.depleteOrder =
                        IF @ = "RA_FIRST" THEN "TFSA_FIRST" ELSE "RA_FIRST"]
       \/ /\ params.inflation > 0
          /\ params' = [params EXCEPT !.taxRealism = ~@]
    /\ pc' = "ready"
    /\ UNCHANGED <<unit, sol, result, taxArgs, taxOut, accIn, acc>>

Next == Start \/ Double \/ Bisect \/ Return \/ Rerender

Spec == Init /\ [][Next]_vars

----------------------------------------------------------------------------
(* Scenario: accumulateToRetirement taken month by month *)

AccContributions == {500, 5000}
AccTfsaMonthly == {0, 800, 3000}
\* Cumulative TFSA contributions to date: far from the cap, within a few
\* months of it, within one month of it, at it and over it.
AccContribToDate == {0, 495000, 499500, 500000, 510000}
AccReturns == {-12, 0, 8}

AccInputs ==
    { [currentAge |-> 30, retireAge |-> 30 + n,
       preReturn |-> r,
       contributionMonthly |-> Rand(c),
       tfsaMonthly |-> Rand(m),
       annualIncrease |-> IF ri THEN 10 ELSE 0,
       initialCapitalTaxable |-> IF ri THEN Rand(100000) ELSE 0,
       initialTfsaBalance |-> IF ri THEN Rand(20000) ELSE 0,
       tfsaContribToDate |-> Rand(d),
       grossIncome |-> IF ri THEN Rand(600000) ELSE 0,
       reinvestRaTaxSaving |-> ri,
       inflation |-> 0, taxRealism |-> FALSE,
       incomeGrowthMode |-> "NONE", incomeGrowthRate |-> 0] :
        n \in 0..MaxPreYears, r \in AccReturns, c \in AccContributions,
        m \in AccTfsaMonthly, d \in AccContribToDate, ri \in BOOLEAN }

\* Inputs that vary the growth of the income the RA deduction is taken from:
\* a yearly RA contribution below the deduction limit and one above it.
AccIncomeInputs ==
    { [currentAge |-> 30, retireAge |-> 30 + n,
       preReturn |-> 0,
       contributionMonthly |-> Rand(c),
       tfsaMonthly |-> 0,
       annualIncrease |-> 0,
       initialCapitalTaxable |-> 0,
       initialTfsaBalance |-> 0,
       tfsaContribToDate |-> 0,
       grossIncome |-> Rand(600000),
       reinvestRaTaxSaving |-> TRUE,
       inflation |-> i, taxRealism |-> FALSE,
       incomeGrowthMode |-> g, incomeGrowthRate |-> r] :
        n \in 0..MaxPreYears, c \in {5000, 20000}, i \in {0, 6},
        g \in {"NONE", "INFLATION", "CUSTOM"}, r \in {0, 5} }

\* Inputs that vary the reinvestment of the tax saving: the toggle, the
\* indexing of the table, an income or none, an RA contribution below the
\* deduction limit and one above it.
AccSavingInputs ==
    { [currentAge |-> 30, retireAge |-> 30 + n,
       preReturn |-> 8,
       contributionMonthly |-> Rand(c),
       tfsaMonthly |-> Rand(1000),
       annualIncrease |-> 0,
       initialCapitalTaxable |-> Rand(100000),
       initialTfsaBalance |-> 0,
       tfsaContribToDate |-> 0,
       grossIncome |-> Rand(g),
       reinvestRaTaxSaving |-> ri,
       inflation |-> 6, taxRealism |-> t,
       incomeGrowthMode |-> "INFLATION", incomeGrowthRate |-> 0] :
        n \in 0..MaxPreYears, c \in {5000, 20000}, g \in {0, 600000},
        ri \in BOOLEAN, t \in BOOLEAN }

\* Inputs without contributions: the balances to start with grow alone.
AccGrowthInputs ==
    { [currentAge |-> 30, retireAge |-> 30 + n,
       preReturn |-> r,
       contributionMonthly |-> 0,
       tfsaMonthly |-> 0,
       annualIncrease |-> 0,
       initialCapitalTaxable |-> Rand(c),
       initialTfsaBalance |-> Rand(20000),
       tfsaContribToDate |-> 0,
       grossIncome |-> 0,
       reinvestRaTaxSaving |-> FALSE,
       inflation |-> 0, taxRealism |-> FALSE,
       incomeGrowthMode |-> "NONE", incomeGrowthRate |-> 0] :
        n \in 0..MaxPreYears, r \in AccReturns, c \in {10000, 100000} }

\* An input whose retirement age is the number Infinity, which numberOr
\* lets through (it replaces NaN alone).
AccUnboundedInputs ==
    { [currentAge |-> 30, retireAge |-> Infinity,
       preReturn |-> 0,
       contributionMonthly |-> 0,
       tfsaMonthly |-> 0,
       annualIncrease |-> 0,
       initialCapitalTaxable |-> 0,
       initialTfsaBalance |-> 0,
       tfsaContribToDate |-> 0,
       grossIncome |-> 0,
       reinvestRaTaxSaving |-> FALSE,
       inflation |-> 0, taxRealism |-> FALSE,
       incomeGrowthMode |-> "NONE", incomeGrowthRate |-> 0] }

\* The passes of the year loop whose counter and ledger rows are kept: more
\* than any finite horizon of the inputs has.
MaxLoopYears == 4

\* The locals st at the loop test y < years, with y and the ledger kept within
\* MaxLoopYears: a pass beyond that which leaves the test true is held at the
\* last counter value, the oldest row dropped, so that a loop whose test never
\* fails goes round in finitely many states.
AccFold(st, in) ==
    IF st.y >= MaxLoopYears /\ st.y < AccYears(in)
    THEN [st EXCEPT !.y = MaxLoopYears - 1, !.timeline = Tail(@)]
    ELSE st

AccInit ==
    /\ unit = 1
    /\ pc = "acc"
    /\ accIn \in AccInputs \cup AccIncomeInputs \cup AccSavingInputs
                \cup AccGrowthInputs \cup AccUnboundedInputs
    /\ acc = AccBegin(accIn)
    /\ result = NoResult
    /\ taxArgs = Unused /\ taxOut = Unused
    /\ params = Unused /\ sol = Unused /\ prev = Unused

\* A pass of the month loop.
AccMonth ==
    /\ pc = "acc"
    /\ acc.y < AccYears(accIn)
    /\ acc.m < 12
    /\ acc' = AccMonthStep(acc, accIn)
    /\ UNCHANGED <<unit, pc, accIn, result, taxArgs, taxOut, params, sol, prev>>

\* The rest of a pass of the year loop, after its twelve months.
AccYear ==
    /\ pc = "acc"
    /\ acc.y < AccYears(accIn)
    /\ acc.m = 12
    /\ acc' = AccFold(AccYearEnd(acc, accIn), accIn)
    /\ UNCHANGED <<unit, pc, accIn, result, taxArgs, taxOut, params, sol, prev>>

\* The return after the year loop.
AccFinish ==
    /\ pc = "acc"
    /\ acc.y >= AccYears(accIn)
    /\ result' = AccReturn(acc)
    /\ pc' = "accDone"
    /\ UNCHANGED <<unit, accIn, acc, taxArgs, taxOut, params, sol, prev>>

AccNext == AccMonth \/ AccYear \/ AccFinish

AccSpec == AccInit /\ [][AccNext]_vars

\* The same with the loops running on: a call runs to completion on the one
\* thread.
AccLiveSpec == AccSpec /\ WF_vars(AccNext)

----------------------------------------------------------------------------
(* Scenario: simulateDecumulation taken year by year *)

\* (1 + postReturn) from the loss of everything to a gain.
DecReturns == {-100, -10, 10}
\* Balances at retirement: none, some, and enough for the largest need.
DecRaStarts == {0, 200000, 3000000}
DecTfsaStarts == {0, 50000, 2000000}
DecTargets == {0, 5000, 40000}
\* Inflation with the realism switch off, or on with retirement two years
\* from now.
DecIndexings == { <<0, FALSE, 0>>, <<6, TRUE, 2>> }

DecInputs ==
    { [retireAge |-> 65, lifeExpectancy |-> 65 + n,
       postReturn |-> r,
       inflation |-> i[1],
       targetNetMonthlyAtRet |-> Rand(g),
       raStart |-> Rand(a),
       tfsaStart |-> Rand(t),
       depleteOrder |-> o,
       taxMode |-> x[1], flatTaxRate |-> x[2],
       yearsFromNowStart |-> i[3],
       taxRealism |-> i[2]] :
        n \in 0..(MaxPostYears + 1), r \in DecReturns, i \in DecIndexings,
        g \in DecTargets, a \in DecRaStarts, t \in DecTfsaStarts,
        o \in {"RA_FIRST", "TFSA_FIRST"}, x \in TaxRegimes }

DecInit ==
    /\ unit = 1
    /\ pc = "dec"
    /\ accIn \in DecInputs
    /\ acc = DecBegin(accIn)
    /\ result = NoResult
    /\ taxArgs = Unused /\ taxOut = Unused
    /\ params = Unused /\ sol = Unused /\ prev = Unused

\* A pass of the year loop.
DecYear ==
    /\ pc = "dec"
    /\ ~acc.stopped
    /\ acc.y < DecYears(accIn)
    /\ acc' = DecYearStep(acc, accIn)
    /\ UNCHANGED <<unit, pc, accIn, result, taxArgs, taxOut, params, sol, prev>>

\* The return, after the break or the last pass.
DecFinish ==
    /\ pc = "dec"
    /\ acc.stopped \/ acc.y >= DecYears(accIn)
    /\ result' = DecReturn(acc)
    /\ pc' = "decDone"
    /\ UNCHANGED <<unit, accIn, acc, taxArgs, taxOut, params, sol, prev>>

DecNext == DecYear \/ DecFinish

DecSpec == DecInit /\ [][DecNext]_vars

----------------------------------------------------------------------------
(* Scenario: the inputs on their way to the simulators, from the form of
   the calculator and from a caller of the hook *)

\* The value JavaScript calls NaN, kept apart from every number modelled.
NaN == -2147483647

\* Number.isFinite(value)
IsFinite(x) == x # NaN /\ x # Infinity /\ x # -Infinity

\* A value a caller supplies: a text (what a form field holds) or a number.
Text(t) == [text |-> t]
Num(n) == [num |-> n]

\* The texts typed into a field.
Texts == {"30", "-5", "", "12abc", "5,000", "Infinity"}

\* The texts of the default values and of the presets.
PresetTexts == {"30", "14", "10", "5", "3000", "7", "6", "18", "12"}

\* The number a text of digits stands for.
Digits ==
    [t \in PresetTexts |->
       CASE t = "30" -> 30 [] t = "14" -> 14 [] t = "10" -> 10
         [] t = "5" -> 5 [] t = "3000" -> 3000 [] t = "7" -> 7
         [] t = "6" -> 6 [] t = "18" -> 18 [] t = "12" -> 12]

\* Number(cleaned), cleaned the text without commas, trimmed; "" is NaN
\* before that.
TextAsNumber ==
    [t \in Texts \cup PresetTexts |->
       CASE t \in PresetTexts -> Digits[t]
         [] t = "-5" -> -5
         [] t = "" -> NaN
         [] t = "12abc" -> NaN
         [] t = "5,000" -> 5000
         [] t = "Infinity" -> Infinity]

\* parseFloat(text.replace(/,/g, "")): the longest numeric prefix.
TextAsFloat ==
    [t \in Texts \cup PresetTexts |->
       CASE t \in PresetTexts -> Digits[t]
         [] t = "-5" -> -5
         [] t = "" -> NaN
         [] t = "12abc" -> 12
         [] t = "5,000" -> 5000
         [] t = "Infinity" -> Infinity]

\* The form's toNumber.
toNumber(value) ==
    IF "num" \in DOMAIN value THEN value.num ELSE TextAsNumber[value.text]

\* The hook's numberOr: parseFloat(String(value).replace(/,/g, "")), the
\* fallback for NaN alone.
numberOr(value, fallback) ==
    LET n == IF "num" \in DOMAIN value THEN value.num
             ELSE TextAsFloat[value.text]
    IN IF n = NaN THEN fallback ELSE n

TFSA_MONTHLY_CAP == 3000

\* The fields followed: an age, the three rates of the presets, the TFSA
\* monthly contribution.
FormFields == {"currentAge", "preReturn", "postReturn", "inflation", "tfsaMonthly"}

defaultFormValues ==
    [currentAge |-> Text("30"), preReturn |-> Text("14"),
     postReturn |-> Text("10"), inflation |-> Text("5"),
     tfsaMonthly |-> Text("3000")]

\* The scenario presets (base, conservative, aggressive), which set the
\* three rates.
presets ==
    { [preReturn |-> Text("14"), postReturn |-> Text("10"), inflation |-> Text("5")],
      [preReturn |-> Text("10"), postReturn |-> Text("7"), inflation |-> Text("6")],
      [preReturn |-> Text("18"), postReturn |-> Text("12"), inflation |-> Text("5")] }

nonNegative(value) == IF IsFinite(value) /\ value >= 0 THEN value ELSE 0

cappedNonNegative(value, cap) == Min(nonNegative(value), cap)

\* sanitizedNumbers of numericValues of the form's values.
sanitizedNumbers(values) ==
    [currentAge |-> Num(nonNegative(toNumber(values.currentAge))),
     preReturn |-> Num(nonNegative(toNumber(values.preReturn))),
     postReturn |-> Num(nonNegative(toNumber(values.postReturn))),
     inflation |-> Num(nonNegative(toNumber(values.inflation))),
     tfsaMonthly |->
         Num(cappedNonNegative(toNumber(values.tfsaMonthly), TFSA_MONTHLY_CAP))]

\* What the hook hands to the simulators for the record p it is called with
\* (rates in percent).
SimulatorInputs(p) ==
    [kind |-> "inputs",
     currentAge |-> numberOr(p.currentAge, 30),
     preReturn |-> numberOr(p.preReturn, 14),
     postReturn |-> numberOr(p.postReturn, 10),
     inflation |-> numberOr(p.inflation, 5),
     tfsaMonthly |-> numberOr(p.tfsaMonthly, 0)]

\* What a caller of the hook may put in a field.
CallerValues ==
    { Text(t) : t \in Texts } \cup { Num(n) : n \in {30, -5, 5000, NaN, Infinity} }

\* The record of a caller that sets no field.
CallerDefaults ==
    [currentAge |-> Num(30), preReturn |-> Num(0), postReturn |-> Num(0),
     inflation |-> Num(0), tfsaMonthly |-> Num(0)]

\* Either the calculator's form with its default values, rendered once, or
\* another caller of the hook before its call.
FormInit ==
    /\ unit = 1
    /\ \/ /\ pc = "form"
          /\ params = defaultFormValues
          /\ accIn = SimulatorInputs(sanitizedNumbers(defaultFormValues))
       \/ /\ pc = "caller"
          /\ params = CallerDefaults
          /\ accIn = Unused
    /\ taxArgs = Unused /\ taxOut = Unused /\ sol = Unused
    /\ result = Unused /\ prev = Unused /\ acc = Unused

\* The render that follows a dispatch: the hook called with the sanitised
\* numbers of the new values.
Rendered(values) ==
    /\ params' = values
    /\ accIn' = SimulatorInputs(sanitizedNumbers(values))
    /\ UNCHANGED <<unit, pc, taxArgs, taxOut, sol, result, prev, acc>>

\* dispatch({ type: "update", field, value })
FormUpdate ==
    /\ pc = "form"
    /\ \E f \in FormFields, t \in Texts :
         Rendered([params EXCEPT ![f] = Text(t)])

\* dispatch({ type: "merge", values: preset })
FormMerge ==
    /\ pc = "form"
    /\ \E preset \in presets :
         Rendered([f \in FormFields |->
                     IF f \in DOMAIN preset THEN preset[f] ELSE params[f]])

\* dispatch({ type: "reset" })
FormReset ==
    /\ pc = "form"
    /\ Rendered(defaultFormValues)

\* A call of the hook by another caller, with two fields of its choice.
HookCall ==
    /\ pc = "caller"
    /\ \E f, g \in FormFields, v, w \in CallerValues :
         /\ params' = [CallerDefaults EXCEPT ![f] = v, ![g] = w]
         /\ accIn' = SimulatorInputs(params')
    /\ UNCHANGED <<unit, pc, taxArgs, taxOut, sol, result, prev, acc>>

FormNext == FormUpdate \/ FormMerge \/ FormReset \/ HookCall

FormSpec == FormInit /\ [][FormNext]_vars

----------------------------------------------------------------------------
(* Claims about the tax evaluators and the inverter (under TaxSpec) *)

Abs(x) == IF x < 0 THEN -x ELSE x

\* C2: for every net target in [0, 10,000,000] and every tax function the
\* inverter accepts, grossFromNetTarget returns tax = tax(gross),
\* net = gross - tax and a net within 1 rand of the target; for a target <= 0
\* it returns three zeros.
C2_InverterWithinOneRand ==
    taxOut.kind = "gross" =>
      LET a == taxArgs
          r == taxOut.res
      IN IF a.netTarget <= 0
         THEN r = [gross |-> 0, tax |-> 0, net |-> 0]
         ELSE /\ r.tax = TaxOf(r.gross, a.age, a.taxMode, a.flatRate,
                               a.yearsFromNow, a.inflation, a.taxRealism)
              /\ r.net = r.gross - r.tax
              /\ Abs(r.net - a.netTarget) <= Rand(1)

\* The same statement for the tax functions whose top marginal rate is at most
\* the 45% the inverter's upper bound assumes: the failure of C2 lies in the
\* flat rates above 45%.
InverterWithinOneRandUpTo45 ==
    (taxOut.kind = "gross" /\ (taxArgs.taxMode = "FLAT" => taxArgs.flatRate <= 45))
      => C2_InverterWithinOneRand

\* The net that the tax function of the call a leaves of the gross x.
NetOf(x, a) ==
    x - TaxOf(x, a.age, a.taxMode, a.flatRate, a.yearsFromNow, a.inflation,
              a.taxRealism)

\* C20: for every call of the inverter with netTarget > 0 (progressive table,
\* indexed or not, or the configured flat rate) the gross whose net equals
\* netTarget lies in [netTarget, netTarget / (1 - 0.45)]: the net at the
\* upper bound is >= netTarget, and the returned gross lies in the interval
\* and delivers at least the net target.
C20_UpperBoundDeliversTarget ==
    (taxOut.kind = "gross" /\ taxArgs.netTarget > 0) =>
      /\ NetOf(GrossUpperBound(taxArgs.netTarget), taxArgs) >= taxArgs.netTarget
      /\ taxOut.res.gross >= taxArgs.netTarget
      /\ taxOut.res.gross <= GrossUpperBound(taxArgs.netTarget)
      /\ taxOut.res.net >= taxArgs.netTarget

\* The same for the tax functions whose top marginal rate is at most 45%.
UpperBoundDeliversTargetUpTo45 ==
    (taxOut.kind = "gross" /\ (taxArgs.taxMode = "FLAT" => taxArgs.flatRate <= 45))
      => C20_UpperBoundDeliversTarget

\* C8 as stated: at every taxable income (taken as positive: C9 covers the
\* rest) the progressive tax at an age >= 65 is strictly lower than at an age
\* < 65, and at an age >= 75 strictly lower than at an age in [65, 75), the
\* income and the indexing held fixed.
C8_RebateStrictAtEveryIncome ==
    (taxOut.kind = "tax" /\ taxArgs.income > 0) =>
      \A a, b \in TaxAges :
        ((a < 65 /\ b >= 65) \/ (a \in 65..74 /\ b >= 75)) =>
          /\ taxOut.sars[b] < taxOut.sars[a]
          /\ taxOut.indexed[b] < taxOut.indexed[a]

\* C8 amended: at every taxable income the progressive tax at an age >= 65 is
\* never higher than at an age < 65, nor at an age >= 75 than at an age in
\* [65, 75), and it is strictly lower whenever the tax at the younger age is
\* positive, the income and the indexing held fixed.
C8_RebateLowersPositiveTax ==
    taxOut.kind = "tax" =>
      \A a, b \in TaxAges :
        ((a < 65 /\ b >= 65) \/ (a \in 65..74 /\ b >= 75)) =>
          /\ taxOut.sars[b] <= taxOut.sars[a]
          /\ taxOut.indexed[b] <= taxOut.indexed[a]
          /\ taxOut.sars[a] > 0 => taxOut.sars[b] < taxOut.sars[a]
          /\ taxOut.indexed[a] > 0 => taxOut.indexed[b] < taxOut.indexed[a]

\* Witness of C8: a positive tax at 64, evaluated with indexed brackets.
C8_Witness ==
    /\ taxOut.kind = "tax"
    /\ taxOut.sars[64] > taxOut.sars[65]
    /\ taxOut.sars[74] > taxOut.sars[75]
    /\ taxOut.sars[75] > 0
    /\ taxArgs.taxRealism /\ taxArgs.yearsFromNow > 0 /\ taxArgs.inflation > 0
    /\ taxOut.indexed[64] # taxOut.sars[64]

\* C9: for every taxable income <= 0, every age and every indexing setting, the
\* progressive, progressive-indexed and flat evaluators return exactly 0.
C9_NoTaxOnNonPositiveIncome ==
    (taxOut.kind = "tax" /\ taxArgs.income <= 0) =>
      /\ \A a \in TaxAges : taxOut.sars[a] = 0 /\ taxOut.indexed[a] = 0
      /\ taxOut.flat = 0

\* Witness of C9: a negative income taxed with indexing on and a flat rate > 0.
C9_Witness ==
    /\ taxOut.kind = "tax"
    /\ taxArgs.income < 0
    /\ taxArgs.taxRealism /\ taxArgs.yearsFromNow > 0 /\ taxArgs.inflation > 0
    /\ taxArgs.flatRate > 0

----------------------------------------------------------------------------
(* Claims about the accumulation (under AccSpec) *)

\* C1: in every month of the accumulation the TFSA contribution is
\* min(tfsaMonthly, 500,000 - cumulative TFSA contributions so far), 0 once
\* the cap is reached; the rest of tfsaMonthly goes to the RA contribution of
\* the same month, so TFSA contribution + overflow = tfsaMonthly, and both
\* amounts land in their pools and in the cumulative total that month.
C1_TfsaCapOverflowsToRa ==
    [][ (pc = "acc" /\ acc'.m = acc.m + 1) =>
          LET headroom == Rand(TFSA_LIFETIME_LIMIT) - acc.tfsaContribTotal
              toTfsa == IF headroom > 0 THEN Min(accIn.tfsaMonthly, headroom)
                        ELSE 0
              toRa == RemainingMonthly(accIn, acc.y) + (accIn.tfsaMonthly - toTfsa)
          IN /\ acc'.tfsaThisMonth = toTfsa
             /\ acc'.tfsaThisMonth + acc'.tfsaOverflow = accIn.tfsaMonthly
             /\ acc'.raThisMonth = toRa
             /\ acc'.tfsaContribTotal = acc.tfsaContribTotal + toTfsa
             /\ acc'.tfsa = GrowMonth(acc.tfsa + toTfsa, acc.monthlyFactor)
             /\ acc'.ra = GrowMonth(acc.ra + toRa, acc.monthlyFactor)
      ]_vars

\* Witness of C1: a month in which the cap cuts the TFSA contribution short
\* and the rest overflows to the RA, in a year whose balances grow.
C1_Witness ==
    /\ pc = "acc" /\ acc.m > 0
    /\ 0 < acc.tfsaThisMonth /\ acc.tfsaThisMonth < accIn.tfsaMonthly
    /\ acc.tfsaOverflow > 0
    /\ acc.tfsaContribTotal = Rand(TFSA_LIFETIME_LIMIT)
    /\ accIn.preReturn > 0

\* C12: in every pre-retirement year record, totalContribution equals
\* raContribution + tfsaContribution, the amounts deposited that year, also
\* when the TFSA monthly amount exceeds the monthly contribution.
C12_TotalIsSumOfDeposits ==
    pc \in {"acc", "accDone"} =>
      \A k \in 1..Len(acc.timeline) :
        acc.timeline[k].totalContribution =
          acc.timeline[k].raContribution + acc.timeline[k].tfsaContribution

\* The same, for the years whose monthly contribution covers the TFSA amount.
TotalIsSumOfDepositsWhenCovered ==
    pc \in {"acc", "accDone"} =>
      \A k \in 1..Len(acc.timeline) :
        YearContributionMonthly(accIn, k - 1) >= accIn.tfsaMonthly =>
          acc.timeline[k].totalContribution =
            acc.timeline[k].raContribution + acc.timeline[k].tfsaContribution

\* C13: when incomeGrowthMode is NONE, gross income is held flat over the
\* accumulation years whatever incomeGrowthRate and inflation are, so the RA
\* deduction limit is the same every year and, with equal yearly RA
\* contributions and tax realism off, every year's reinvested tax saving is
\* equal.
C13_FlatIncomeWhenGrowthNone ==
    (pc \in {"acc", "accDone"} /\ accIn.incomeGrowthMode = "NONE"
       /\ ~accIn.taxRealism) =>
      \A j, k \in 1..Len(acc.timeline) :
        /\ GrossIncomeYear(accIn, k - 1) = accIn.grossIncome
        /\ acc.timeline[j].raContribution = acc.timeline[k].raContribution
             => acc.timeline[j].raTaxSaving = acc.timeline[k].raTaxSaving

\* The same, for the inputs whose incomeGrowthRate is 0.
FlatIncomeWhenGrowthNoneAndRateZero ==
    (pc \in {"acc", "accDone"} /\ accIn.incomeGrowthMode = "NONE"
       /\ ~accIn.taxRealism /\ accIn.incomeGrowthRate = 0) =>
      \A j, k \in 1..Len(acc.timeline) :
        /\ GrossIncomeYear(accIn, k - 1) = accIn.grossIncome
        /\ acc.timeline[j].raContribution = acc.timeline[k].raContribution
             => acc.timeline[j].raTaxSaving = acc.timeline[k].raTaxSaving

\* b is a times (1 + preReturn), up to the rand lost in each of the twelve
\* monthly roundings and one for the monthly factor.
GrownByAnnualReturn(a, b) ==
    Abs(b - PctOf(a, 100 + accIn.preReturn)) <= 13 * unit

\* C19: with zero contributions a pool's balance after one accumulation year,
\* twelve monthly compounding steps at the geometrically converted monthly
\* rate, equals the starting balance times (1 + preReturn), also for negative
\* preReturn (10 000 at -12% ends the year at about 8 800).
C19_YearCompoundsToAnnualReturn ==
    pc \in {"acc", "accDone"} =>
      \A k \in 1..Len(acc.timeline) :
        (acc.timeline[k].raContribution = 0
           /\ acc.timeline[k].tfsaContribution = 0
           /\ acc.timeline[k].raTaxSaving = 0) =>
          /\ GrownByAnnualReturn(acc.timeline[k].raStart, acc.timeline[k].raEnd)
          /\ GrownByAnnualReturn(acc.timeline[k].tfsaStart, acc.timeline[k].tfsaEnd)

\* Witness of C19: 10 000 without contributions after a year at -12%, closer
\* to 8 800 than to the 8 863 that twelve steps of -1% leave.
C19_Witness ==
    /\ pc = "accDone"
    /\ accIn.preReturn = -12 /\ accIn.contributionMonthly = 0
    /\ Len(acc.timeline) >= 1
    /\ acc.timeline[1].raStart = Rand(10000)
    /\ acc.timeline[1].raEnd <= Rand(8800)
    /\ acc.timeline[1].raEnd >= Rand(8787)

----------------------------------------------------------------------------
(* Claims about the solver (under Spec) *)

\* The simulation of the contribution that n ticks stand for lasts to life
\* expectancy.
Survives(n, guard, p) ==
    simulateWithContribution(MonthlyOf(n, guard), p).exhaustionAge
        >= p.lifeExpectancy

\* The bracketing phase ended on an upper bound that lasts.
BracketFound == Survives(Ticks, sol.guard, params)

\* C3: whenever the bracketing phase finds an upper bound whose simulation
\* lasts to life expectancy, the returned requiredMonthlyContribution is a
\* contribution whose simulation lasts to life expectancy (and the result
\* reports that simulation), and after the 30 bisection steps the interval has
\* width (bracketed upper bound) / 2^30, one tick, with a lower end that is 0
\* or a contribution whose simulation exhausts before life expectancy.
C3_SolverReturnsMinimalSurvivor ==
    (pc = "done" /\ BracketFound) =>
      LET r == result.requiredMonthlyContribution IN
      /\ r.n = sol.high /\ r.guard = sol.guard
      /\ Survives(r.n, r.guard, params)
      /\ result.exhaustionAge >= params.lifeExpectancy
      /\ sol.solution = simulateWithContribution(MonthlyOf(r.n, r.guard), params)
      /\ sol.i = SolverSteps
      /\ sol.high - sol.low = 1
      /\ sol.low = 0 \/ ~Survives(sol.low, sol.guard, params)

\* Witness of C3: a bracket found after a doubling, a positive lower end that
\* fails.
C3_Witness ==
    /\ pc = "done" /\ BracketFound
    /\ sol.guard > 0
    /\ sol.low > 0 /\ ~Survives(sol.low, sol.guard, params)
    /\ Len(sol.solution.preTimeline) > 0

\* None of the upper bounds 50,000 * 2^k, k = 0..10, lasts to life expectancy.
NoBoundSurvives == \A k \in 0..MaxDoublings : ~Survives(Ticks, k, params)

\* C4: if none of the upper bounds 50,000 * 2^k (k = 0..10) lasts to life
\* expectancy, the solver still returns: the result is that of the largest
\* contribution tried, 50,000 * 2^10 a month, with exhaustionAge <
\* lifeExpectancy.
C4_InfeasibleReturnsLargestTried ==
    (pc = "done" /\ NoBoundSurvives) =>
      /\ result.requiredMonthlyContribution = [n |-> Ticks, guard |-> MaxDoublings]
      /\ sol.solution = simulateWithContribution(MonthlyOf(Ticks, MaxDoublings),
                                                  params)
      /\ result.exhaustionAge = sol.solution.exhaustionAge
      /\ result.exhaustionAge < params.lifeExpectancy
      /\ result.postTimeline = sol.solution.postTimeline

\* Witness of C4: an infeasible target with years of saving ahead.
C4_Witness ==
    /\ pc = "done" /\ NoBoundSurvives
    /\ params.retireAge > params.currentAge
    /\ result.totalCapitalAtRet > 0

\* a <= b for two contributions held as [n, guard], the amount being
\* proportional to n * 2^guard.
ContribLeq(a, b) ==
    IF a.guard <= b.guard
    THEN (a.n + 2^(b.guard - a.guard) - 1) \div 2^(b.guard - a.guard) <= b.n
    ELSE a.n <= b.n \div 2^(a.guard - b.guard)

\* The earlier invocations whose inputs differ from the present ones in
\* targetNetToday alone.
OtherTargets ==
    { k \in 1..Len(prev) :
        /\ prev[k].params.targetNetToday # params.targetNetToday
        /\ [prev[k].params EXCEPT !.targetNetToday = params.targetNetToday]
             = params }

\* C5: of two input records that differ only in targetNetToday, the one with
\* the larger targetNetToday never yields the smaller
\* requiredMonthlyContribution.
C5_MonotoneInTarget ==
    pc = "done" =>
      \A k \in OtherTargets :
        LET q == prev[k]
            mine == result.requiredMonthlyContribution
            theirs == q.result.requiredMonthlyContribution
        IN IF q.params.targetNetToday < params.targetNetToday
           THEN ContribLeq(theirs, mine)
           ELSE ContribLeq(mine, theirs)

\* Witness of C5: a larger target that needs a strictly larger contribution,
\* both feasible.
C5_Witness ==
    /\ pc = "done"
    /\ \E k \in OtherTargets :
         /\ prev[k].params.targetNetToday < params.targetNetToday
         /\ ~ContribLeq(result.requiredMonthlyContribution,
                         prev[k].result.requiredMonthlyContribution)
         /\ result.exhaustionAge >= params.lifeExpectancy
         /\ prev[k].result.exhaustionAge >= params.lifeExpectancy

\* C6: two invocations with identical inputs return identical results (every
\* scalar and every ledger row), whatever was invoked in between.
C6_SameInputsSameResult ==
    pc = "done" =>
      \A k \in 1..Len(prev) :
        prev[k].params = params => prev[k].result = result

\* Witness of C6: the same inputs again after an invocation with other inputs
\* and another result.
C6_Witness ==
    /\ pc = "done" /\ Len(prev) = 2
    /\ prev[1].params = params
    /\ prev[2].params # params
    /\ prev[2].result # result
    /\ Len(result.preTimeline) > 0

----------------------------------------------------------------------------
(* Claims about the depletion order and the ledgers (under Spec) *)

\* The earlier invocations whose inputs differ from the present ones in
\* depleteOrder alone.
OtherOrders ==
    { k \in 1..Len(prev) :
        /\ prev[k].params.depleteOrder # params.depleteOrder
        /\ [prev[k].params EXCEPT !.depleteOrder = params.depleteOrder] = params }

\* The year-1 figures of an invocation: of the present one, of an earlier one.
Year1Now ==
    [tax |-> sol.solution.year1Tax,
     gross |-> sol.solution.year1GrossWithdrawal,
     tfsaAtRet |-> result.tfsaCapitalAtRet,
     row |-> result.postTimeline[1]]
Year1Of(q) ==
    [tax |-> q.year1Tax,
     gross |-> q.year1GrossWithdrawal,
     tfsaAtRet |-> q.result.tfsaCapitalAtRet,
     row |-> q.result.postTimeline[1]]

\* The pairs <<TFSA_FIRST figures, RA_FIRST figures>> that the present
\* invocation forms with the earlier ones, under a flat withdrawal tax.
OrderPairs ==
    IF pc = "done" /\ params.taxMode = "FLAT"
    THEN { IF params.depleteOrder = "TFSA_FIRST"
           THEN <<Year1Now, Year1Of(prev[k])>>
           ELSE <<Year1Of(prev[k]), Year1Now>> : k \in OtherOrders }
    ELSE {}

\* C7 as stated: with a flat withdrawal tax and all other inputs identical,
\* TFSA_FIRST yields a strictly lower year-1 tax and a strictly lower year-1
\* gross withdrawal than RA_FIRST whenever the TFSA balance at retirement is
\* positive.
C7_TfsaFirstStrictlyLower ==
    \A pr \in OrderPairs :
      pr[1].tfsaAtRet > 0 =>
        /\ pr[1].tax < pr[2].tax
        /\ pr[1].gross < pr[2].gross

\* C7 amended: with a flat withdrawal tax and all other inputs identical,
\* TFSA_FIRST never yields a higher year-1 tax or year-1 gross withdrawal than
\* RA_FIRST, and yields strictly lower ones whenever the TFSA balance at
\* retirement, the flat rate and the year-1 net requirement are positive and
\* TFSA_FIRST leaves part of the RA in place in year 1.
C7_TfsaFirstLowerWhenTaxed ==
    \A pr \in OrderPairs :
      /\ pr[1].tax <= pr[2].tax
      /\ pr[1].gross <= pr[2].gross
      /\ ( /\ pr[1].tfsaAtRet > 0
           /\ params.flatTaxRate > 0
           /\ pr[1].row.netRequired > 0
           /\ pr[1].row.raEnd > 0 )
         => /\ pr[1].tax < pr[2].tax
            /\ pr[1].gross < pr[2].gross

\* Witness of C7: the strict case, with a year of saving before retirement.
C7_Witness ==
    \E pr \in OrderPairs :
      /\ pr[1].tfsaAtRet > 0 /\ params.flatTaxRate > 0
      /\ pr[1].row.netRequired > 0 /\ pr[1].row.raEnd > 0
      /\ pr[1].tax > 0
      /\ pr[1].tax < pr[2].tax
      /\ params.retireAge > params.currentAge

\* The ledger rows are numbered from 0 and aged from the given age, one year
\* each.
RowsFrom(rows, age) ==
    \A k \in 1..Len(rows) : rows[k].yearIndex = k - 1 /\ rows[k].age = age + k - 1

\* Capital is exhausted in the first year of retirement.
ExhaustedImmediately == result.exhaustionAge = params.retireAge

----------------------------------------------------------------------------
(* Claims about the orchestrator's present-day tax figures (under Spec) *)

\* C11: the taxSaving returned equals tax(grossIncome, currentAge) minus
\* tax(grossIncome - min(0.275 * grossIncome, 350 000), currentAge) under the
\* un-indexed table, and effectiveTaxRateNow equals
\* tax(grossIncome, currentAge) / grossIncome, 0 when grossIncome <= 0.
C11_TaxSavingAndRateNow ==
    pc = "done" =>
      LET g == params.grossIncome
          age == params.currentAge
      IN /\ result.taxSaving =
              sarsAnnualTax(g, age)
              - sarsAnnualTax(g - Min((g * 275) \div 1000, Rand(350000)), age)
         /\ result.effectiveTaxRateNow =
              IF g <= 0 THEN Zero ELSE Quotient(sarsAnnualTax(g, age), g)

\* Witness of C11: a result for an income whose deduction is the ceiling of
\* 350 000, taxed with the secondary rebate, with a positive saving and rate.
C11_Witness ==
    /\ pc = "done"
    /\ (params.grossIncome * 275) \div 1000 > Rand(350000)
    /\ params.currentAge >= 65
    /\ result.taxSaving > 0
    /\ result.effectiveTaxRateNow.num > 0

----------------------------------------------------------------------------
(* Claims about the year-1 withdrawal figures (under Spec) *)

\* The inverter's answer for the first year's net requirement
\* 12 * targetNetMonthlyAtRet at the retirement age.
Year1Inverted(p) ==
    grossFromNetTarget(12 * TargetNetMonthlyAtRet(p), p.retireAge, p.taxMode,
                       p.flatTaxRate, YearsToRetire(p), p.inflation,
                       p.taxRealism)

\* The RA is drawn first in a first year of retirement and covers the
\* grossed-up need g.
RaCoversYear1(g) ==
    /\ pc = "done"
    /\ params.depleteOrder = "RA_FIRST"
    /\ params.lifeExpectancy > params.retireAge
    /\ TargetNetMonthlyAtRet(params) > 0
    /\ sol.solution.ra > 0
    /\ g.gross <= sol.solution.ra

\* The year-1 figures y of a simulation equal the inverter's answer g, the
\* net to within one rand.
Year1Equals(y, g) ==
    /\ y.year1GrossWithdrawal = g.gross
    /\ y.year1Tax = g.tax
    /\ Abs(y.year1NetWithdrawal - g.net) <= Rand(1)

\* C14: when the RA is drawn first and its balance at retirement covers the
\* grossed-up need, the year-1 gross withdrawal, tax and net delivered equal
\* the inverter's gross, tax and net for 12 * targetNetMonthlyAtRet at the
\* retirement age, and the returned record exposes them as
\* year1GrossWithdrawal, year1Tax and year1NetWithdrawal.
C14_Year1FromInverterExposed ==
    RaCoversYear1(Year1Inverted(params)) =>
      /\ {"year1GrossWithdrawal", "year1Tax", "year1NetWithdrawal"}
            \subseteq DOMAIN result
      /\ Year1Equals(result, Year1Inverted(params))

\* The equality alone, of the solver's final simulation (which the returned
\* record is built from), for the progressive table and flat rates up to 45%.
Year1FromInverterInSolution ==
    (RaCoversYear1(Year1Inverted(params))
       /\ (params.taxMode = "SARS" \/ params.flatTaxRate <= 45)) =>
      Year1Equals(sol.solution, Year1Inverted(params))

\* A state where Year1FromInverterInSolution has something to say.
Year1FromInverterReached ==
    /\ RaCoversYear1(Year1Inverted(params))
    /\ params.taxMode = "FLAT" /\ params.flatTaxRate <= 45
    /\ sol.solution.year1Tax > 0

----------------------------------------------------------------------------
(* Claims about the indexing of the tax table (under Spec) *)

\* The indexed and the un-indexed progressive tax on income x at age a compare
\* as claimed: never higher and strictly lower where the un-indexed tax is
\* positive if the table is indexed; equal if it is not.
IndexingLowers(x, a, yearsFromNow, inflation, taxRealism) ==
    IF taxRealism /\ yearsFromNow > 0 /\ inflation > 0
    THEN /\ sarsAnnualTaxIndexed(x, a, yearsFromNow, inflation, taxRealism)
              <= sarsAnnualTax(x, a)
         /\ sarsAnnualTax(x, a) > 0 =>
              sarsAnnualTaxIndexed(x, a, yearsFromNow, inflation, taxRealism)
                < sarsAnnualTax(x, a)
    ELSE sarsAnnualTaxIndexed(x, a, yearsFromNow, inflation, taxRealism)
           = sarsAnnualTax(x, a)

\* The same for every income and age of the tax scenario, in the years the
\* present inputs reach, with their inflation and their realism switch.
IndexingLowersEveryTax ==
    \A x \in TaxAmounts, a \in TaxAges, y \in 0..(MaxPreYears + MaxPostYears) :
      IndexingLowers(Rand(x), a, y, params.inflation, params.taxRealism)

\* The same in the tax scenario (amounts to the cent, inflation of either
\* sign).
IndexingLowersInTaxScenario ==
    taxOut.kind = "tax" =>
      \A a \in TaxAges :
        IndexingLowers(taxArgs.income, a, taxArgs.yearsFromNow,
                       taxArgs.inflation, taxArgs.taxRealism)

\* The earlier invocations whose inputs differ from the present ones in the
\* realism switch alone, the table being indexed in the first year of
\* retirement when the switch is on.
RealismPairs ==
    { k \in 1..Len(prev) :
        /\ prev[k].params = [params EXCEPT !.taxRealism = ~@]
        /\ params.inflation > 0 /\ YearsToRetire(params) > 0 }

\* C15: with tax realism on, inflation > 0 and years from now > 0 the
\* progressive tax on an income and age is never higher than the un-indexed
\* tax and strictly lower whenever the un-indexed tax is positive; it equals
\* the un-indexed tax otherwise; and the year-1 withdrawal tax of a projection
\* is strictly lower with tax realism on than off.
C15_RealismStrictlyLowersYear1Tax ==
    pc = "done" =>
      /\ IndexingLowersEveryTax
      /\ \A k \in RealismPairs :
           IF params.taxRealism
           THEN sol.solution.year1Tax < prev[k].year1Tax
           ELSE prev[k].year1Tax < sol.solution.year1Tax

\* C15 amended: the evaluators compare as claimed, and the year-1 withdrawal
\* tax of a projection under the progressive table is never higher with tax
\* realism on than off, and strictly lower whenever it is positive with tax
\* realism off.
C15_RealismLowersPositiveYear1Tax ==
    pc = "done" =>
      /\ IndexingLowersEveryTax
      /\ \A k \in RealismPairs :
           LET on == IF params.taxRealism THEN sol.solution.year1Tax
                     ELSE prev[k].year1Tax
               off == IF params.taxRealism THEN prev[k].year1Tax
                      ELSE sol.solution.year1Tax
           IN params.taxMode = "SARS" =>
                /\ on <= off
                /\ off > 0 => on < off

\* Witness of C15: a projection taxed in year 1 with the switch off, after
\* the same inputs with the switch on.
C15_Witness ==
    /\ pc = "done"
    /\ \E k \in RealismPairs :
         /\ ~params.taxRealism
         /\ params.taxMode = "SARS"
         /\ 0 < prev[k].year1Tax
         /\ prev[k].year1Tax < sol.solution.year1Tax

----------------------------------------------------------------------------
(* Claims about termination (under AccLiveSpec and Spec) *)

\* C16: every invocation terminates for every input record (the doubling
\* loop runs at most 10 times, the contribution bisection 30 times, every
\* net-to-gross bisection 40 times): the accumulation that each of the
\* solver's simulations starts with reaches its return.
C16_EveryInvocationTerminates == <>(pc = "accDone")

\* The accumulation reaches its return when the retirement age is finite.
FiniteAccumulationTerminates ==
    (pc = "acc" /\ accIn.retireAge < Infinity) ~> (pc = "accDone")

\* The solver's loops keep their counts: at most 10 doublings, 30 bisection
\* steps, and one simulation for the first upper bound and for each pass.
SolverLoopsBounded ==
    pc \in {"while", "for", "done"} =>
      /\ sol.guard <= 10
      /\ sol.i <= 30
      /\ pc = "done" => sol.i = 30
      /\ 1 + sol.guard + sol.i <= 41

----------------------------------------------------------------------------
(* Claims about the inputs of the simulators (under FormSpec) *)

\* The inputs i of the simulators are safe: age and rates finite and >= 0,
\* the TFSA monthly contribution at most its statutory cap.
SafeInputs(i) ==
    /\ \A f \in {"currentAge", "preReturn", "postReturn", "inflation"} :
         IsFinite(i[f]) /\ i[f] >= 0
    /\ IsFinite(i.tfsaMonthly) /\ i.tfsaMonthly <= TFSA_MONTHLY_CAP

\* C17: negative or NaN inputs never reach the simulators: whatever text or
\* numbers the caller supplies, and after any sequence of form update,
\* preset-merge and reset actions, the ages and rates the simulators are
\* called with are finite and >= 0 and the TFSA monthly contribution is at
\* most 3 000, the hook clamping them itself.
C17_SimulatorInputsClamped ==
    accIn # Unused => SafeInputs(accIn)

\* The same for the calls the calculator's form makes.
FormInputsClamped ==
    pc = "form" => SafeInputs(accIn)

\* No NaN reaches the simulators, whoever calls.
NoNaNReachesSimulators ==
    accIn # Unused => \A f \in FormFields : accIn[f] # NaN

\* A form holding a negative age, an unparsable rate and a TFSA amount over
\* the cap.
FormInputsClampedReached ==
    /\ pc = "form"
    /\ params.currentAge = Text("-5")
    /\ params.preReturn = Text("12abc")
    /\ params.inflation = Text("Infinity")
    /\ params.tfsaMonthly = Text("5,000")
    /\ accIn.tfsaMonthly = TFSA_MONTHLY_CAP

----------------------------------------------------------------------------
(* Claims about zero-valued inputs (under Spec) *)

\* The contribution c, held as [n, guard], is zero up to the resolution of
\* the solver and of the amounts: it comes to at most one rand a month.
EffectivelyZero(c) == MonthlyOf(c.n, c.guard) <= Rand(1)

\* The three ratios of the result are 0 where their denominators are 0.
RatiosZeroOnZeroDenominator ==
    /\ result.totalCapitalAtRet = 0 => result.year1DrawdownPct = Zero
    /\ sol.solution.year1GrossWithdrawal = 0 => result.year1EffectiveTaxRate = Zero
    /\ params.grossIncome <= 0 => result.effectiveTaxRateNow = Zero

\* C18: when targetNetToday = 0 the returned requiredMonthlyContribution is
\* effectively zero, with exhaustionAge = lifeExpectancy, for any ages and
\* balances including zero starting capital and a zero-length accumulation
\* horizon; and year1DrawdownPct, year1EffectiveTaxRate and
\* effectiveTaxRateNow are 0 when their denominators are 0.
C18_ZeroTargetZeroResult ==
    pc = "done" =>
      /\ params.targetNetToday = 0 =>
           /\ EffectivelyZero(result.requiredMonthlyContribution)
           /\ result.exhaustionAge = params.lifeExpectancy
      /\ RatiosZeroOnZeroDenominator

\* The same where some capital can be there at retirement: a balance to
\* start with, or at least a year in which to contribute.
ZeroTargetZeroResultWithCapital ==
    pc = "done" =>
      /\ (params.targetNetToday = 0
            /\ (params.initialCapital + params.initialTfsaBalance > 0
                  \/ params.retireAge > params.currentAge)) =>
           /\ EffectivelyZero(result.requiredMonthlyContribution)
           /\ result.exhaustionAge = params.lifeExpectancy
      /\ RatiosZeroOnZeroDenominator

\* States where ZeroTargetZeroResultWithCapital has something to say: a zero
\* target with no capital to start with, and one with no years to retirement.
ZeroTargetReached ==
    /\ pc = "done" /\ params.targetNetToday = 0
    /\ params.initialCapital + params.initialTfsaBalance = 0
    /\ params.retireAge > params.currentAge
    /\ result.year1EffectiveTaxRate = Zero

----------------------------------------------------------------------------
(* Claims about the decumulation (under DecSpec) *)

\* The tax function of the decumulation input in, in the year y of retirement.
DecTaxOf(x, in, y) ==
    TaxOf(x, in.retireAge + y, in.taxMode, in.flatTaxRate,
          in.yearsFromNowStart + y, in.inflation, in.taxRealism)

\* The need the RA is asked for in the pass that led from st to nx: the whole
\* net requirement if the RA is drawn first, what the TFSA left otherwise.
RaAsked(st, nx, in) ==
    IF in.depleteOrder = "TFSA_FIRST"
    THEN NetRequired(in, st.y) - nx.fromTfsa
    ELSE NetRequired(in, st.y)

\* The grossed-up amount for the need asked of the RA.
RaGrossedUp(st, nx, in) ==
    grossFromNetTarget(RaAsked(st, nx, in), in.retireAge + st.y, in.taxMode,
                       in.flatTaxRate, in.yearsFromNowStart + st.y,
                       in.inflation, in.taxRealism)

\* The RA does not cover the grossed-up need g asked of it in the pass from st.
RaFallsShort(st, asked, g) == st.ra > 0 /\ asked > 0 /\ g.gross > st.ra

\* C21: decumulation never overdraws a pool: in every year the amount taken
\* from the TFSA is at most its balance and the amount taken from the RA at
\* most its balance; when the grossed-up need exceeds the RA balance exactly
\* the whole balance is withdrawn, the RA becomes 0 and the tax is that on
\* the balance; and both end balances of every record are >= 0.
C21_NeverOverdraws ==
    [][ (pc = "dec" /\ acc'.y = acc.y + 1) =>
          LET row == acc'.timeline[Len(acc'.timeline)]
          IN /\ 0 <= acc'.fromTfsa /\ acc'.fromTfsa <= Max(0, acc.tfsa)
             /\ 0 <= acc'.fromRa /\ acc'.fromRa <= Max(0, acc.ra)
             /\ RaFallsShort(acc, RaAsked(acc, acc', accIn),
                             RaGrossedUp(acc, acc', accIn)) =>
                  /\ acc'.fromRa = acc.ra
                  /\ row.raEnd = 0
                  /\ row.taxPaid = DecTaxOf(acc.ra, accIn, acc.y)
                  /\ row.grossWithdrawal = acc.ra + acc'.fromTfsa
             /\ row.raEnd >= 0 /\ row.tfsaEnd >= 0
      ]_vars

\* Witness of C21: a year in which the RA does not cover the grossed-up need,
\* is withdrawn whole and taxed, and the TFSA is drawn in part.
C21_Witness ==
    /\ pc = "dec" /\ acc.y > 0
    /\ acc.fromRa = acc.timeline[Len(acc.timeline)].raStart
    /\ acc.fromRa > 0
    /\ acc.timeline[Len(acc.timeline)].taxPaid > 0
    /\ acc.timeline[Len(acc.timeline)].raEnd = 0
    /\ acc.fromTfsa > 0
    /\ acc.fromTfsa < acc.timeline[Len(acc.timeline)].tfsaStart
    /\ acc.timeline[Len(acc.timeline)].tfsaEnd > 0

\* The year of the ledger record row is one of exhaustion: its need was not
\* met in full, or no capital is left after the growth.
ExhaustionYear(row) ==
    row.netDelivered < row.netRequired \/ row.raEnd + row.tfsaEnd <= 0

\* The ledger tl and exhaustionAge e returned for the input in stop at the
\* first year of exhaustion, or cover every year of the retirement.
StopsAtFirstExhaustion(tl, e, in) ==
    /\ \A i \in 1..Len(tl) : tl[i].age = in.retireAge + i - 1
    /\ \A i \in 1..(Len(tl) - 1) : ~ExhaustionYear(tl[i])
    /\ IF tl /= << >> /\ ExhaustionYear(tl[Len(tl)])
       THEN e = tl[Len(tl)].age
       ELSE e = in.lifeExpectancy /\ Len(tl) = DecYears(in)

\* C22: decumulation stops at the first year in which the net need is not
\* met in full after both pools have been tried, or the capital after growth
\* is <= 0: that year's age is exhaustionAge, its record is the last of the
\* ledger and no later year is simulated; otherwise exhaustionAge is
\* lifeExpectancy and the ledger has one record for every year of
\* [retireAge, lifeExpectancy).
C22_StopsAtFirstExhaustion ==
    /\ [](pc = "decDone" =>
            StopsAtFirstExhaustion(result.timeline, result.exhaustionAge, accIn))
    /\ [][ (pc = "dec" /\ acc.y > 0
            /\ ExhaustionYear(acc.timeline[Len(acc.timeline)]))
           => (acc' = acc /\ pc' = "decDone") ]_vars

\* Witness of C22: a ledger that stops, after more than one year and before
\* lifeExpectancy, at a year whose need the two pools did not meet.
C22_Witness ==
    /\ pc = "decDone"
    /\ Len(result.timeline) > 1
    /\ Len(result.timeline) < DecYears(accIn)
    /\ result.exhaustionAge = accIn.retireAge + Len(result.timeline) - 1
    /\ result.timeline[Len(result.timeline)].netDelivered
         < result.timeline[Len(result.timeline)].netRequired
    /\ result.timeline[Len(result.timeline)].netDelivered > 0

\* The record row of a year that took fromRa and fromTfsa from the pools
\* counts the TFSA amount once in the gross withdrawal and once in the net
\* delivered, and taxes the RA amount alone.
TfsaNetForNet(row, fromRa, fromTfsa, raTax) ==
    /\ row.grossWithdrawal = fromRa + fromTfsa
    /\ row.taxPaid = raTax
    /\ row.netDelivered = Min(row.netRequired, fromTfsa + (fromRa - raTax))

\* C23: TFSA withdrawals are net for net and untaxed: the amount taken from
\* the TFSA adds the same to the year's gross withdrawal and to its net
\* delivered and nothing to taxPaid (the tax is that of the RA amount alone);
\* and under TFSA_FIRST, in a year the TFSA covers the whole net need, the RA
\* is not drawn (it changes by the growth only), taxPaid is 0 and
\* grossWithdrawal equals netRequired.
C23_TfsaNetForNetUntaxed ==
    [][ (pc = "dec" /\ acc'.y = acc.y + 1) =>
          LET row == acc'.timeline[Len(acc'.timeline)]
          IN /\ TfsaNetForNet(row, acc'.fromRa, acc'.fromTfsa,
                              IF acc'.fromRa > 0
                              THEN DecTaxOf(acc'.fromRa, accIn, acc.y) ELSE 0)
             /\ acc'.tfsa = PctOf(acc.tfsa - acc'.fromTfsa, 100 + accIn.postReturn)
             /\ (accIn.depleteOrder = "TFSA_FIRST" /\ acc.tfsa >= row.netRequired) =>
                  /\ acc'.fromTfsa = row.netRequired
                  /\ acc'.fromRa = 0
                  /\ row.raEnd = PctOf(acc.ra, 100 + accIn.postReturn)
                  /\ row.taxPaid = 0
                  /\ row.grossWithdrawal = row.netRequired
                  /\ row.netDelivered = row.netRequired
      ]_vars

\* Witness of C23: a year under TFSA_FIRST in which the TFSA covered a
\* positive need whole and the RA, untouched, grew.
C23_Witness ==
    /\ pc = "dec" /\ acc.y > 0
    /\ accIn.depleteOrder = "TFSA_FIRST"
    /\ acc.fromTfsa > 0
    /\ acc.fromTfsa = acc.timeline[Len(acc.timeline)].netRequired
    /\ acc.timeline[Len(acc.timeline)].grossWithdrawal = acc.fromTfsa
    /\ acc.timeline[Len(acc.timeline)].taxPaid = 0
    /\ acc.timeline[Len(acc.timeline)].raEnd
         > acc.timeline[Len(acc.timeline)].raStart

----------------------------------------------------------------------------
(* Claims about the tax evaluators, continued (under TaxSpec) *)

\* The flat tax of the evaluation is the product floored at 0, whatever the
\* age, the indexing years, the inflation and the realism switch.
FlatTaxIsFlooredProduct ==
    /\ taxOut.flat = Max(0, PctOf(taxArgs.income, taxArgs.flatRate))
    /\ taxOut.flat >= 0
    /\ \A a \in TaxAges :
         TaxOf(taxArgs.income, a, "FLAT", taxArgs.flatRate, taxArgs.yearsFromNow,
               taxArgs.inflation, taxArgs.taxRealism) = taxOut.flat

\* C24: in flat mode the tax is max(0, income * flatRate) for every income
\* and every configured flat rate: it is never negative, and no rebate and no
\* indexing applies (it is the same at every age and for every indexing
\* years, inflation and realism setting).
C24_FlatTaxIsFlooredProduct ==
    taxOut.kind = "tax" => FlatTaxIsFlooredProduct

\* For a flat rate >= 0 the flat tax is the product floored at 0.
FlatTaxIsFlooredProductForRateFrom0 ==
    (taxOut.kind = "tax" /\ taxArgs.flatRate >= 0) => FlatTaxIsFlooredProduct

\* A positive flat tax evaluated with indexing on.
FlatTaxIsFlooredProductReached ==
    /\ taxOut.kind = "tax"
    /\ taxArgs.flatRate > 0 /\ taxOut.flat > 0
    /\ taxArgs.taxRealism /\ taxArgs.yearsFromNow > 0 /\ taxArgs.inflation > 0

\* The limits of the table ascend strictly and end at +infinity.
LimitsAscend ==
    /\ \A i \in 1..(Len(SARS_BRACKETS_2026) - 1) :
         SARS_BRACKETS_2026[i].limit < SARS_BRACKETS_2026[i + 1].limit
    /\ SARS_BRACKETS_2026[Len(SARS_BRACKETS_2026)].limit = Infinity

\* The base of bracket i is the pre-rebate tax of bracket i - 1 at its limit.
BaseContinues(i) ==
    Rand(SARS_BRACKETS_2026[i].base)
      = BracketTax(BracketLimit(i - 1, 0, 0), i - 1, 0, 0)

\* The tax sarsAnnualTax returned at age a for an income of bracket i >= 2 is
\* the pre-rebate tax at the limit below plus the bracket's rate on the
\* excess, less the rebate: no jump at the limit.
ContinuesFromLimit(tax, income, i, a) ==
    tax = Max(0, BracketTax(BracketLimit(i - 1, 0, 0), i - 1, 0, 0)
                 + PctOf(income - BracketLimit(i - 1, 0, 0),
                         SARS_BRACKETS_2026[i].rate)
                 - Rebate(a, 0, 0))

\* C25: the bracket table is consistent: its limits ascend strictly and end
\* at +infinity, the base of every bracket after the first equals the
\* pre-rebate tax of the bracket before at that bracket's upper limit, and so
\* the pre-rebate tax sarsAnnualTax computes is continuous at every limit.
C25_BracketTableConsistent ==
    /\ LimitsAscend
    /\ \A i \in 2..Len(SARS_BRACKETS_2026) : BaseContinues(i)
    /\ (taxOut.kind = "tax" /\ taxArgs.income > 0) =>
         LET i == FirstBracket(taxArgs.income, 1, 0, 0)
         IN /\ i \in 1..Len(SARS_BRACKETS_2026)
            /\ i >= 2 =>
                 \A a \in TaxAges :
                    ContinuesFromLimit(taxOut.sars[a], taxArgs.income, i, a)

\* Witness of C25: an income 37 cents above the limit of the top bracket but
\* one, taxed in the top bracket at every age.
C25_Witness ==
    /\ taxOut.kind = "tax"
    /\ taxArgs.income = Rand(1817000) + 37
    /\ FirstBracket(taxArgs.income, 1, 0, 0) = Len(SARS_BRACKETS_2026)
    /\ taxOut.sars[30] = Rand(644489) + PctOf(37, 45) - Rand(17235)

\* C27: for the progressive table, at every age, indexed or not, the net
\* gross - tax(gross) does not decrease when the gross (>= 0) increases.
C27_NetNonDecreasing ==
    (taxOut.kind = "net" /\ taxArgs.income >= 0) =>
      \A a \in TaxAges :
         /\ taxOut.sars[a][1] <= taxOut.sars[a][2]
         /\ taxOut.indexed[a][1] <= taxOut.indexed[a][2]

\* Witness of C27: two gross amounts on the two sides of an indexed limit, 37
\* cents apart, the tax positive: the net rises by less than the step.
C27_Witness ==
    /\ taxOut.kind = "net"
    /\ taxArgs.taxRealism /\ taxArgs.yearsFromNow > 0 /\ taxArgs.inflation > 0
    /\ taxArgs.step = 37
    /\ FirstBracket(taxArgs.income, 1, taxArgs.inflation, taxArgs.yearsFromNow)
         < FirstBracket(taxArgs.income + taxArgs.step, 1, taxArgs.inflation,
                        taxArgs.yearsFromNow)
    /\ taxOut.indexed[75][1] < taxOut.indexed[75][2]
    /\ taxOut.indexed[75][2] < taxOut.indexed[75][1] + taxArgs.step

----------------------------------------------------------------------------
(* Claims about the accumulation, continued (under AccSpec) *)

\* The tax saved in year y at the age of that year on the RA contribution
\* raContribution out of the income, by the table indexed over y years.
TaxSavedOn(income, raContribution, y, in) ==
    Max(0, sarsAnnualTaxIndexed(income, in.currentAge + y, y, in.inflation,
                                in.taxRealism)
           - sarsAnnualTaxIndexed(
                 income - Min(raContribution, RaDeductionLimit(income)),
                 in.currentAge + y, y, in.inflation, in.taxRealism))

\* The lump sum year y ends with, its record row given.
YearEndLumpSum(row, y, in) ==
    IF in.reinvestRaTaxSaving /\ GrossIncomeYear(in, y) > 0
       /\ row.raContribution > 0
    THEN TaxSavedOn(GrossIncomeYear(in, y), row.raContribution, y, in)
    ELSE 0

\* C26: at the end of each accumulation year y, when the reinvest toggle is
\* on and the year's gross income and RA contribution are positive, the RA is
\* increased once, after the twelve monthly steps, by
\* max(0, tax(income_y) - tax(income_y - min(raContribution_y,
\* min(0.275 * income_y, 350,000)))) at the year's age with indexing years y,
\* and the amount is recorded as raTaxSaving; with the toggle off raTaxSaving
\* is 0 in every record and the RA gets nothing but contributions and growth.
C26_TaxSavingReinvestedAtYearEnd ==
    [][ /\ (pc = "acc" /\ acc.m < 12 /\ acc' /= acc) =>
            /\ acc'.ra = GrowMonth(acc.ra + acc'.raThisMonth, acc.monthlyFactor)
            /\ acc'.timeline = acc.timeline
        /\ (pc = "acc" /\ acc.m = 12 /\ acc' /= acc) =>
            LET row == acc'.timeline[Len(acc'.timeline)]
            IN /\ row.yearIndex = acc.y
               /\ row.raContribution = acc.raAnnual
               /\ row.raTaxSaving = YearEndLumpSum(row, acc.y, accIn)
               /\ acc'.ra = acc.ra + row.raTaxSaving
               /\ row.raEnd = acc'.ra
               /\ ~accIn.reinvestRaTaxSaving => row.raTaxSaving = 0
      ]_vars

\* Witness of C26: the end of the second year of saving with the toggle and
\* the indexing on, the RA contribution above the deduction limit, a saving
\* reinvested.
C26_Witness ==
    /\ pc = "acc" /\ acc.m = 0 /\ acc.y = 2
    /\ accIn.reinvestRaTaxSaving /\ accIn.taxRealism /\ accIn.inflation > 0
    /\ acc.timeline[2].raContribution
         > RaDeductionLimit(GrossIncomeYear(accIn, 1))
    /\ acc.timeline[2].raTaxSaving > 0
    /\ acc.timeline[2].raTaxSaving
         = TaxSavedOn(GrossIncomeYear(accIn, 1), acc.timeline[2].raContribution,
                      1, accIn)

\* The cumulative TFSA contribution of the locals st: what was contributed
\* before, the years of the ledger and the months of the year under way.
TfsaContributedSoFar(st, in) ==
    in.tfsaContribToDate + SumField(st.timeline, 1, "tfsaContribution")
    + (IF st.m > 0 THEN st.tfsaAnnual ELSE 0)

\* C28: in every state of the accumulation loop the cumulative TFSA
\* contribution (tfsaContribToDate plus the monthly TFSA contributions made
\* so far) never decreases and never exceeds the lifetime limit of 500,000,
\* provided tfsaContribToDate <= 500,000 and tfsaMonthly >= 0; and if
\* tfsaContribToDate is at or above the limit no TFSA contribution is made
\* and the whole tfsaMonthly goes to the RA every month.
C28_TfsaLifetimeLimitKept ==
    /\ [](( pc = "acc" /\ accIn.tfsaMonthly >= 0
            /\ accIn.tfsaContribToDate <= Rand(TFSA_LIFETIME_LIMIT)) =>
             /\ acc.tfsaContribTotal <= Rand(TFSA_LIFETIME_LIMIT)
             /\ acc.y < MaxLoopYears =>
                  acc.tfsaContribTotal = TfsaContributedSoFar(acc, accIn))
    /\ [][ (pc = "acc" /\ accIn.tfsaMonthly >= 0) =>
             acc'.tfsaContribTotal >= acc.tfsaContribTotal ]_vars
    /\ [][ ( pc = "acc" /\ acc.m < 12 /\ acc' /= acc
             /\ accIn.tfsaContribToDate >= Rand(TFSA_LIFETIME_LIMIT)) =>
             /\ acc'.tfsaThisMonth = 0
             /\ acc'.tfsaContribTotal = acc.tfsaContribTotal
             /\ acc'.tfsa = GrowMonth(acc.tfsa, acc.monthlyFactor)
             /\ acc'.raThisMonth = RemainingMonthly(accIn, acc.y) + accIn.tfsaMonthly
             /\ acc'.ra = GrowMonth(acc.ra + acc'.raThisMonth, acc.monthlyFactor)
          ]_vars

\* Witness of C28: the limit, not reached before, is reached in the run, and
\* a month after that the whole desired TFSA amount went to the RA.
C28_Witness ==
    /\ pc = "acc" /\ acc.m > 0
    /\ accIn.tfsaContribToDate < Rand(TFSA_LIFETIME_LIMIT)
    /\ acc.tfsaContribTotal = Rand(TFSA_LIFETIME_LIMIT)
    /\ accIn.tfsaMonthly > 0
    /\ acc.tfsaThisMonth = 0
    /\ acc.tfsaOverflow = accIn.tfsaMonthly
    /\ acc.raThisMonth >= accIn.tfsaMonthly

----------------------------------------------------------------------------
(* Claims about the solver, continued (under Spec) *)

\* The record res the hook returned carries the ledgers, the capital and the
\* exhaustion age of the simulation sim.
ReturnsSimulation(res, sim) ==
    /\ res.preTimeline = sim.preTimeline
    /\ res.postTimeline = sim.postTimeline
    /\ res.taxableCapitalAtRet = sim.ra
    /\ res.tfsaCapitalAtRet = sim.tfsa
    /\ res.totalCapitalAtRet = sim.ra + sim.tfsa
    /\ res.exhaustionAge = sim.exhaustionAge

\* C29: at every point of the solver (after the first simulation, after each
\* doubling, after each bisection step) the solution kept is the simulation
\* of the present upper bound high; hence the ledgers, the capital and the
\* exhaustionAge returned are those of simulating the returned
\* requiredMonthlyContribution.  (At every point the call that solution came
\* from had high as its argument; the simulation is run again for comparison
\* after the first simulation, after each doubling, after the last bisection
\* step and on the record returned.)
C29_SolutionIsSimulationOfHigh ==
    /\ pc \in {"while", "for", "done"} =>
         sol.simulated = [n |-> sol.high, guard |-> sol.guard]
    /\ (pc = "while" \/ (pc = "for" /\ sol.i = SolverSteps)) =>
         sol.solution
           = simulateWithContribution(MonthlyOf(sol.high, sol.guard), params)
    /\ pc = "done" =>
         ReturnsSimulation(result,
             simulateWithContribution(
                 MonthlyOf(result.requiredMonthlyContribution.n,
                           result.requiredMonthlyContribution.guard), params))

\* Witness of C29: a return after a doubling and after bisection steps that
\* lowered the upper bound, with years in both ledgers.
C29_Witness ==
    /\ pc = "done"
    /\ result.requiredMonthlyContribution.guard > 0
    /\ result.requiredMonthlyContribution.n < Ticks
    /\ result.preTimeline /= << >> /\ result.postTimeline /= << >>
    /\ result.exhaustionAge = params.lifeExpectancy

\* Every record of the ledger tl after the first starts from the end balances
\* of the record before it, a year later.
LedgerContinuous(tl) ==
    \A i \in 2..Len(tl) :
       /\ tl[i].raStart = tl[i - 1].raEnd
       /\ tl[i].tfsaStart = tl[i - 1].tfsaEnd
       /\ tl[i].yearIndex = tl[i - 1].yearIndex + 1
       /\ tl[i].age = tl[i - 1].age + 1

\* The ledger tl, if it has a record, starts in year 0 at the age given from
\* the balances ra and tfsa.
LedgerStartsFrom(tl, age, ra, tfsa) ==
    tl /= << >> =>
       /\ tl[1].yearIndex = 0 /\ tl[1].age = age
       /\ tl[1].raStart = ra /\ tl[1].tfsaStart = tfsa

\* The balances the accumulation of the ledger pre ended with.
AccumulatedTo(pre, p) ==
    IF pre = << >>
    THEN [ra |-> p.initialCapital, tfsa |-> p.initialTfsaBalance]
    ELSE [ra |-> pre[Len(pre)].raEnd, tfsa |-> pre[Len(pre)].tfsaEnd]

\* C30: the ledgers are continuous: each record's start balances are the end
\* balances of the record before it, yearIndex and age go up by 1 from record
\* to record, the first pre-retirement record starts from the input balances
\* and the first post-retirement record from the RA and TFSA the accumulation
\* ended with.
C30_LedgersContinuous ==
    pc = "done" =>
      /\ LedgerContinuous(result.preTimeline)
      /\ LedgerContinuous(result.postTimeline)
      /\ LedgerStartsFrom(result.preTimeline, params.currentAge,
                          params.initialCapital, params.initialTfsaBalance)
      /\ LedgerStartsFrom(result.postTimeline, params.retireAge,
                          result.taxableCapitalAtRet, result.tfsaCapitalAtRet)
      /\ LedgerStartsFrom(result.postTimeline, params.retireAge,
                          AccumulatedTo(result.preTimeline, params).ra,
                          AccumulatedTo(result.preTimeline, params).tfsa)

\* Witness of C30: ledgers of two years or more on both sides, the balances
\* changing from year to year, a tax saving reinvested at the end of the
\* first year.
C30_Witness ==
    /\ pc = "done"
    /\ Len(result.preTimeline) >= 2 /\ Len(result.postTimeline) >= 2
    /\ result.preTimeline[1].raTaxSaving > 0
    /\ result.preTimeline[2].raStart > result.preTimeline[1].raStart
    /\ result.postTimeline[2].raStart > 0
    /\ result.postTimeline[2].raStart /= result.postTimeline[1].raStart
    /\ result.postTimeline[1].tfsaStart > 0

====
